---- MODULE Spec2Model ----
(***************************************************************************)
(* Model of the review merge engine, src/MERGER.py (WalmartReviewMerger).  *)
(*                                                                         *)
(* Strings are sequences of one-character strings, so that strip(),        *)
(* lower(), title(), len() and the regular expressions of the source are   *)
(* computed character by character.  JSON values are records               *)
(* [t, s, n]: t is the type tag, s the characters of a string, n the       *)
(* number (an int as itself, a float in tenths: 4.5 is JFloat(45)).        *)
(***************************************************************************)
EXTENDS Integers, Sequences, FiniteSets, TLC

(***************************************************************************)
(* JSON / Python values                                                    *)
(***************************************************************************)
Absent == [t |-> "absent", s |-> <<>>, n |-> 0]
JNull == [t |-> "null", s |-> <<>>, n |-> 0]
JStr(cs) == [t |-> "str", s |-> cs, n |-> 0]
JInt(i) == [t |-> "int", s |-> <<>>, n |-> i]
JFloat(tenths) == [t |-> "float", s |-> <<>>, n |-> tenths]
\* the JSON array [1], a value that is neither a string nor a number
JList == [t |-> "list", s |-> <<>>, n |-> 0]
JTrue == [t |-> "bool", s |-> <<>>, n |-> 1]
JFalse == [t |-> "bool", s |-> <<>>, n |-> 0]

\* 'key' in dict
Has(v) == v.t # "absent"

\* dict.get(key, default)
Get(v, default) == IF Has(v) THEN v ELSE default

\* Python truth value of a value held under a key
Truthy(v) ==
    CASE v.t = "str" -> Len(v.s) > 0
      [] v.t = "int" -> v.n # 0
      [] v.t = "float" -> v.n # 0
      [] v.t = "bool" -> v.n # 0
      [] v.t = "list" -> TRUE
      [] OTHER -> FALSE

\* value of a number in tenths
Tenths(v) == IF v.t = "int" THEN 10 * v.n ELSE v.n

DigitChars == <<"0", "1", "2", "3", "4", "5", "6", "7", "8", "9">>

IsDigit(c) == \E i \in 1..10 : DigitChars[i] = c

DigitVal(c) == (CHOOSE i \in 1..10 : DigitChars[i] = c) - 1

RECURSIVE NatToChars(_)
NatToChars(k) ==
    IF k < 10 THEN <<DigitChars[k + 1]>>
    ELSE NatToChars(k \div 10) \o <<DigitChars[(k % 10) + 1]>>

IntToChars(i) == IF i < 0 THEN <<"-">> \o NatToChars(0 - i) ELSE NatToChars(i)

FloatToChars(tn) ==
    LET a == IF tn < 0 THEN 0 - tn ELSE tn
        body == NatToChars(a \div 10) \o <<".">> \o NatToChars(a % 10)
    IN  IF tn < 0 THEN <<"-">> \o body ELSE body

\* str(v)
PyStr(v) ==
    CASE v.t = "str" -> v.s
      [] v.t = "int" -> IntToChars(v.n)
      [] v.t = "float" -> FloatToChars(v.n)
      [] v.t = "list" -> <<"[", "1", "]">>
      [] v.t = "bool" -> IF v.n = 1 THEN <<"T", "r", "u", "e">> ELSE <<"F", "a", "l", "s", "e">>
      [] OTHER -> <<"N", "o", "n", "e">>

LowerCase == <<"a", "b", "c", "d", "e", "f", "g", "h", "i", "j", "k", "l", "m",
               "n", "o", "p", "q", "r", "s", "t", "u", "v", "w", "x", "y", "z">>

UpperCase == <<"A", "B", "C", "D", "E", "F", "G", "H", "I", "J", "K", "L", "M",
               "N", "O", "P", "Q", "R", "S", "T", "U", "V", "W", "X", "Y", "Z">>

IsUpper(c) == \E i \in 1..26 : UpperCase[i] = c

IsLower(c) == \E i \in 1..26 : LowerCase[i] = c

LowerChar(c) == IF IsUpper(c) THEN LowerCase[CHOOSE i \in 1..26 : UpperCase[i] = c] ELSE c

UpperChar(c) == IF IsLower(c) THEN UpperCase[CHOOSE i \in 1..26 : LowerCase[i] = c] ELSE c

\* str.lower()
Lower(cs) == [i \in 1..Len(cs) |-> LowerChar(cs[i])]

IsSpace(c) == c \in {" ", "\t", "\n"}

\* str.strip(): drop the leading and the trailing whitespace
Strip(cs) ==
    LET keep == {i \in 1..Len(cs) : ~IsSpace(cs[i])}
    IN  IF keep = {} THEN <<>>
        ELSE LET lo == CHOOSE i \in keep : \A j \in keep : i <= j
                 hi == CHOOSE i \in keep : \A j \in keep : j <= i
             IN  SubSeq(cs, lo, hi)

\* str.title(): a letter that follows a non-letter is upper-cased, any other
\* letter is lower-cased
Title(cs) ==
    [i \in 1..Len(cs) |->
        IF i = 1 \/ ~(IsUpper(cs[i - 1]) \/ IsLower(cs[i - 1]))
        THEN UpperChar(cs[i]) ELSE LowerChar(cs[i])]

\* str.replace(old, new) for single characters
Replace(cs, old, new) == [i \in 1..Len(cs) |-> IF cs[i] = old THEN new ELSE cs[i]]

\* float() of a string: after strip(), an optional sign, one or more digits
\* and at most one fractional digit (the strings of the model carry no
\* exponent, no "inf"/"nan" and no second fractional digit)
ParseFloat(cs) ==
    LET b == Strip(cs)
        neg == Len(b) > 0 /\ b[1] = "-"
        signed == Len(b) > 0 /\ b[1] \in {"-", "+"}
        u == IF signed THEN SubSeq(b, 2, Len(b)) ELSE b
        dots == {i \in 1..Len(u) : u[i] = "."}
        ip == IF dots = {} THEN u ELSE SubSeq(u, 1, Len(u) - 2)
        wellformed ==
            /\ Len(ip) > 0
            /\ \A i \in 1..Len(ip) : IsDigit(ip[i])
            /\ \/ dots = {}
               \/ /\ dots = {Len(u) - 1}
                  /\ IsDigit(u[Len(u)])
        RECURSIVE val(_)
        val(k) == IF k = 0 THEN 0 ELSE 10 * val(k - 1) + DigitVal(ip[k])
        frac == IF dots = {} THEN 0 ELSE DigitVal(u[Len(u)])
        mag == 10 * val(Len(ip)) + frac
    IN  IF wellformed THEN [ok |-> TRUE, val |-> IF neg THEN 0 - mag ELSE mag]
        ELSE [ok |-> FALSE, val |-> 0]

\* float(v): ok = FALSE stands for ValueError / TypeError
PyFloat(v) ==
    CASE v.t = "int" -> [ok |-> TRUE, val |-> 10 * v.n]
      [] v.t = "float" -> [ok |-> TRUE, val |-> v.n]
      [] v.t = "bool" -> [ok |-> TRUE, val |-> 10 * v.n]
      [] v.t = "str" -> ParseFloat(v.s)
      [] OTHER -> [ok |-> FALSE, val |-> 0]

(***************************************************************************)
(* File names: os.path and the regular expressions of                      *)
(* extract_reviews_from_json                                               *)
(***************************************************************************)
\* minimum number of digits of an id embedded in a file name: \d{8,}
ID_MIN_DIGITS == 8

\* digits of the date and of the time of a timestamp suffix: _\d{8}_\d{6}$
DATE_DIGITS == 8

TIME_DIGITS == 6

\* a review_text of fewer characters is rejected as noise
MIN_TEXT_LEN == 10

\* the largest rating that is kept, 5.0, in tenths
MAX_RATING == Tenths(JInt(5))

AllDigits(cs, lo, hi) == \A k \in lo..hi : IsDigit(cs[k])

StartsWith(cs, pre) == Len(cs) >= Len(pre) /\ SubSeq(cs, 1, Len(pre)) = pre

Drop(cs, k) == SubSeq(cs, k + 1, Len(cs))

\* os.path.basename
Basename(path) ==
    LET seps == {i \in 1..Len(path) : path[i] = "/"}
    IN  IF seps = {} THEN path
        ELSE Drop(path, CHOOSE i \in seps : \A j \in seps : j <= i)

\* os.path.splitext(name)[0]: cut at the last dot, unless only dots precede it
SplitextRoot(name) ==
    LET dots == {i \in 1..Len(name) : name[i] = "."}
        d == CHOOSE i \in dots : \A j \in dots : j <= i
    IN  IF dots = {} THEN name
        ELSE IF \E k \in 1..(d - 1) : name[k] # "." THEN SubSeq(name, 1, d - 1)
        ELSE name

\* re.search(r'_(\d{8,})_', s): the leftmost underscore followed by a run of
\* at least 8 digits that ends at an underscore; group(1) is the run
IdMatchEnd(cs, i) ==
    {j \in (i + 1 + ID_MIN_DIGITS)..Len(cs) : cs[j] = "_" /\ AllDigits(cs, i + 1, j - 1)}

IdMatchStarts(cs) == {i \in 1..Len(cs) : cs[i] = "_" /\ IdMatchEnd(cs, i) # {}}

SearchProductId(cs) ==
    LET starts == IdMatchStarts(cs)
        i == CHOOSE a \in starts : \A b \in starts : a <= b
        j == CHOOSE e \in IdMatchEnd(cs, i) : TRUE
    IN  IF starts = {} THEN [found |-> FALSE, group |-> <<>>]
        ELSE [found |-> TRUE, group |-> SubSeq(cs, i + 1, j - 1)]

WALMART_REVIEWS == <<"w", "a", "l", "m", "a", "r", "t", "_", "r", "e", "v", "i", "e", "w", "s">>

\* re.sub(r'walmart_reviews_?', '', s): every occurrence, left to right
RECURSIVE SubPrefix(_)
SubPrefix(cs) ==
    IF cs = <<>> THEN <<>>
    ELSE IF StartsWith(cs, WALMART_REVIEWS)
         THEN LET rest == Drop(cs, Len(WALMART_REVIEWS))
              IN  IF Len(rest) > 0 /\ rest[1] = "_" THEN SubPrefix(Tail(rest))
                  ELSE SubPrefix(rest)
         ELSE <<Head(cs)>> \o SubPrefix(Tail(cs))

\* re.sub(r'_\d{8}_\d{6}$', '', s)
SubTimestamp(cs) ==
    LET n == Len(cs)
        w == DATE_DIGITS + TIME_DIGITS + 2
    IN  IF /\ n >= w
           /\ cs[n - w + 1] = "_"
           /\ AllDigits(cs, n - w + 2, n - TIME_DIGITS - 1)
           /\ cs[n - TIME_DIGITS] = "_"
           /\ AllDigits(cs, n - TIME_DIGITS + 1, n)
        THEN SubSeq(cs, 1, n - w)
        ELSE cs

\* lines 96-98: the readable name left of a file name
CleanName(source_file) == SubTimestamp(SubPrefix(SplitextRoot(Basename(source_file))))

GROUP_ == <<"G", "R", "O", "U", "P", "_">>

(***************************************************************************)
(* Documents                                                               *)
(***************************************************************************)
NoGroup == [has |-> FALSE, v |-> <<>>]

Group(rs) == [has |-> TRUE, v |-> rs]

NoGroups == [positive |-> NoGroup, negative |-> NoGroup, neutral |-> NoGroup, all |-> NoGroup]

\* the value under a 'reviews' (or 'products') key
NoField == [t |-> "absent", v |-> <<>>, g |-> NoGroups]

ListField(xs) == [t |-> "list", v |-> xs, g |-> NoGroups]

DictField(pos, neg, neu, all) ==
    [t |-> "dict", v |-> <<>>,
     g |-> [positive |-> pos, negative |-> neg, neutral |-> neu, all |-> all]]

\* a value that is neither an array nor an object (a string, a number)
OtherField == [t |-> "other", v |-> <<>>, g |-> NoGroups]

\* an entry of a reviews array with the keys the merge reads; reviews is the
\* value under a 'reviews' key of the entry, obj = FALSE is an entry that is
\* not a JSON object
RevScored(text, sentiment, rating, pid, confidence, score, verified) ==
    [obj |-> TRUE, review_text |-> text, sentiment |-> sentiment, rating |-> rating,
     product_id |-> pid, product_name |-> Absent, source_file |-> Absent,
     confidence |-> confidence, score |-> score, verified_purchase |-> verified,
     reviews |-> NoField]

Rev(text, sentiment, rating, pid) ==
    RevScored(text, sentiment, rating, pid, Absent, Absent, Absent)

NotAnObject == [Rev(Absent, Absent, Absent, Absent) EXCEPT !.obj = FALSE]

\* a product object met as an entry of a top-level array
ArrayEntry(product) ==
    [Rev(Absent, Absent, Absent, product.product_id) EXCEPT
        !.product_name = product.product_name,
        !.reviews = product.reviews]

\* an entry of a 'products' array
ProductObj(pid, name, revs) ==
    [obj |-> TRUE, product_id |-> pid, product_name |-> name, reviews |-> revs]

\* a parsed document: kind is "dict", "list", "scalar" or "none"
\* ("none": load_json_file returned None)
DictDoc(pid, name, url, products, revs) ==
    [kind |-> "dict", product_id |-> pid, product_name |-> name, product_url |-> url,
     products |-> products, reviews |-> revs, items |-> <<>>]

ListDoc(items) ==
    [kind |-> "list", product_id |-> Absent, product_name |-> Absent,
     product_url |-> Absent, products |-> NoField, reviews |-> NoField, items |-> items]

NoneDoc ==
    [kind |-> "none", product_id |-> Absent, product_name |-> Absent,
     product_url |-> Absent, products |-> NoField, reviews |-> NoField, items |-> <<>>]

\* Python truth value of a parsed document
DocTruthy(data) ==
    CASE data.kind = "dict" ->
            \/ Has(data.product_id) \/ Has(data.product_name) \/ Has(data.product_url)
            \/ data.products.t # "absent" \/ data.reviews.t # "absent"
      [] data.kind = "list" -> Len(data.items) > 0
      [] data.kind = "scalar" -> TRUE
      [] OTHER -> FALSE

(***************************************************************************)
(* extract_reviews_from_json                                               *)
(***************************************************************************)
\* AddContext writing the fields of the product over those of the review
AddContext_overwrite(review, product) ==
    [review EXCEPT
        !.product_id = IF Has(product.product_id) THEN product.product_id ELSE @,
        !.product_name = IF Has(product.product_name) THEN product.product_name ELSE @]


\* lines 55-58: product context added to a review that lacks it
AddContext(review, product) ==
    [review EXCEPT
        !.product_id = IF ~Has(@) /\ Has(product.product_id) THEN product.product_id ELSE @,
        !.product_name = IF ~Has(@) /\ Has(product.product_name) THEN product.product_name ELSE @]

\* ProductsReviews stopping after the first product
ProductsReviews_first(products) ==
    IF products = <<>> THEN <<>>
    ELSE LET product == Head(products)
         IN  IF product.obj /\ product.reviews.t = "list"
             THEN [k \in 1..Len(product.reviews.v) |->
                     IF product.reviews.v[k].obj
                     THEN AddContext(product.reviews.v[k], product)
                     ELSE product.reviews.v[k]]
             ELSE <<>>


\* lines 51-59: the reviews of every product that has a 'reviews' array
RECURSIVE ProductsReviews(_)
ProductsReviews(products) ==
    IF products = <<>> THEN <<>>
    ELSE LET product == Head(products)
             own == IF product.obj /\ product.reviews.t = "list"
                    THEN [k \in 1..Len(product.reviews.v) |->
                            IF product.reviews.v[k].obj
                            THEN AddContext(product.reviews.v[k], product)
                            ELSE product.reviews.v[k]]
                    ELSE <<>>
         IN  own \o ProductsReviews(Tail(products))

GroupReviews(g) == IF g.has THEN g.v ELSE <<>>

\* RawReviews adding the 'reviews' array of the document to those of its products
RawReviews_both(data) ==
    IF data.kind = "dict" /\ data.products.t = "list"
    THEN ProductsReviews(data.products.v) \o data.reviews.v
    ELSE IF data.kind = "dict" /\ data.reviews.t # "absent"
    THEN IF data.reviews.t = "list" THEN data.reviews.v
         ELSE IF data.reviews.t = "dict"
         THEN GroupReviews(data.reviews.g.positive) \o GroupReviews(data.reviews.g.negative)
              \o GroupReviews(data.reviews.g.neutral) \o GroupReviews(data.reviews.g.all)
         ELSE <<>>
    ELSE IF data.kind = "list" THEN data.items
    ELSE <<>>


\* RawReviews taking the 'all' array, when there is one, in place of the others
RawReviews_allonly(data) ==
    IF data.kind = "dict" /\ data.products.t = "list"
    THEN ProductsReviews(data.products.v)
    ELSE IF data.kind = "dict" /\ data.reviews.t # "absent"
    THEN IF data.reviews.t = "list" THEN data.reviews.v
         ELSE IF data.reviews.t = "dict"
         THEN IF data.reviews.g.all.has THEN GroupReviews(data.reviews.g.all)
              ELSE GroupReviews(data.reviews.g.positive)
                   \o GroupReviews(data.reviews.g.negative)
                   \o GroupReviews(data.reviews.g.neutral)
         ELSE <<>>
    ELSE IF data.kind = "list" THEN data.items
    ELSE <<>>


\* lines 49-75: the one extraction path that runs
RawReviews(data) ==
    IF data.kind = "dict" /\ data.products.t = "list"
    THEN ProductsReviews(data.products.v)
    ELSE IF data.kind = "dict" /\ data.reviews.t # "absent"
    THEN IF data.reviews.t = "list" THEN data.reviews.v
         ELSE IF data.reviews.t = "dict"
         THEN GroupReviews(data.reviews.g.positive) \o GroupReviews(data.reviews.g.negative)
              \o GroupReviews(data.reviews.g.neutral) \o GroupReviews(data.reviews.g.all)
         ELSE <<>>
    ELSE IF data.kind = "list" THEN data.items
    ELSE <<>>

\* an entry that is not an object makes the item assignment of line 56, 58
\* or 79 raise TypeError, as does a product entry that is not an object at
\* line 52
ExtractRaises(data) ==
    \/ \E k \in 1..Len(RawReviews(data)) : ~RawReviews(data)[k].obj
    \/ /\ data.kind = "dict" /\ data.products.t = "list"
       /\ \E k \in 1..Len(data.products.v) : ~data.products.v[k].obj

\* lines 33-47
InitialInfo(data, source_file) ==
    [product_id |-> IF data.kind = "dict" /\ Has(data.product_id)
                    THEN JStr(PyStr(data.product_id)) ELSE JNull,
     product_name |-> IF data.kind = "dict" /\ Has(data.product_name)
                      THEN data.product_name ELSE JNull,
     product_url |-> IF data.kind = "dict" /\ Has(data.product_url)
                     THEN data.product_url ELSE JNull,
     source_file |-> Basename(source_file)]

\* ReviewInfo letting the id of a review replace the id of the document
ReviewInfo_override(info, reviews) ==
    LET with == {k \in 1..Len(reviews) :
                    Has(reviews[k].product_id) /\ Truthy(reviews[k].product_id)}
        first == CHOOSE k \in with : \A j \in with : k <= j
    IN  IF with # {}
        THEN [info EXCEPT !.product_id = JStr(PyStr(reviews[first].product_id))]
        ELSE info

\* lines 78-84: the first review with a product_id that is true becomes the
\* product id, when the document gave none
ReviewInfo(info, reviews) ==
    LET with == {k \in 1..Len(reviews) :
                    Has(reviews[k].product_id) /\ Truthy(reviews[k].product_id)}
        first == CHOOSE k \in with : \A j \in with : k <= j
    IN  IF ~Truthy(info.product_id) /\ with # {}
        THEN [info EXCEPT !.product_id = JStr(PyStr(reviews[first].product_id))]
        ELSE info

\* lines 88-101
FallbackInfo(info, source_file) ==
    LET m == SearchProductId(source_file)
        clean_name == CleanName(source_file)
    IN  IF Truthy(info.product_id) THEN info
        ELSE IF m.found THEN [info EXCEPT !.product_id = JStr(m.group)]
        ELSE [info EXCEPT
                !.product_id = JStr(GROUP_ \o clean_name),
                !.product_name = IF ~Truthy(@)
                                 THEN JStr(Title(Replace(clean_name, "_", " "))) ELSE @]

extract_reviews_from_json(data, source_file) ==
    LET raw == RawReviews(data)
        reviews == [k \in 1..Len(raw) |->
                        [raw[k] EXCEPT !.source_file = JStr(Basename(source_file))]]
    IN  [raised |-> ExtractRaises(data),
         reviews |-> reviews,
         product_info |-> FallbackInfo(ReviewInfo(InitialInfo(data, source_file), reviews),
                                       source_file)]

(***************************************************************************)
(* The input files: names and parsed contents                              *)
(***************************************************************************)
\* "walmart_reviews_kitchen_20240101_120000.json"
F_KITCHEN ==
    <<"w", "a", "l", "m", "a", "r", "t", "_", "r", "e", "v", "i", "e", "w", "s", "_", "k", "i",
      "t", "c", "h", "e", "n", "_", "2", "0", "2", "4", "0", "1", "0", "1", "_", "1", "2", "0",
      "0", "0", "0", ".", "j", "s", "o", "n">>

\* "walmart_reviews_home_decor.json"
F_DECOR ==
    <<"w", "a", "l", "m", "a", "r", "t", "_", "r", "e", "v", "i", "e", "w", "s", "_", "h", "o",
      "m", "e", "_", "d", "e", "c", "o", "r", ".", "j", "s", "o", "n">>

\* "tools.json"
F_TOOLS ==
    <<"t", "o", "o", "l", "s", ".", "j", "s", "o", "n">>

\* "walmart_reviews_12345678_x.json"
F_ID ==
    <<"w", "a", "l", "m", "a", "r", "t", "_", "r", "e", "v", "i", "e", "w", "s", "_", "1", "2",
      "3", "4", "5", "6", "7", "8", "_", "x", ".", "j", "s", "o", "n">>

\* "a.json"
F_A ==
    <<"a", ".", "j", "s", "o", "n">>

\* "b.json"
F_B ==
    <<"b", ".", "j", "s", "o", "n">>

\* "c.json"
F_C ==
    <<"c", ".", "j", "s", "o", "n">>

\* "combined.json"
F_COMBINED ==
    <<"c", "o", "m", "b", "i", "n", "e", "d", ".", "j", "s", "o", "n">>

\* "bad.json"
F_BAD ==
    <<"b", "a", "d", ".", "j", "s", "o", "n">>

\* "notes.json"
F_NOTES ==
    <<"n", "o", "t", "e", "s", ".", "j", "s", "o", "n">>

\* "strs.json"
F_STRS ==
    <<"s", "t", "r", "s", ".", "j", "s", "o", "n">>

\* "great value"
T_GREAT ==
    <<"g", "r", "e", "a", "t", " ", "v", "a", "l", "u", "e">>

\* " Great Value "
T_GREAT_CAPS ==
    <<" ", "G", "r", "e", "a", "t", " ", "V", "a", "l", "u", "e", " ">>

\* "poor quality"
T_POOR ==
    <<"p", "o", "o", "r", " ", "q", "u", "a", "l", "i", "t", "y">>

\* "POOR QUALITY"
T_POOR_CAPS ==
    <<"P", "O", "O", "R", " ", "Q", "U", "A", "L", "I", "T", "Y">>

\* "just works fine"
T_SAME ==
    <<"j", "u", "s", "t", " ", "w", "o", "r", "k", "s", " ", "f", "i", "n", "e">>

\* "nice product"
T_NICE ==
    <<"n", "i", "c", "e", " ", "p", "r", "o", "d", "u", "c", "t">>

\* "fine for now"
T_FINE ==
    <<"f", "i", "n", "e", " ", "f", "o", "r", " ", "n", "o", "w">>

\* "okay i guess"
T_OKAY ==
    <<"o", "k", "a", "y", " ", "i", " ", "g", "u", "e", "s", "s">>

\* "love it a lot"
T_LOVE ==
    <<"l", "o", "v", "e", " ", "i", "t", " ", "a", " ", "l", "o", "t">>

\* "too short"
T_SHORT ==
    <<"t", "o", "o", " ", "s", "h", "o", "r", "t">>

\* "   bad    "
T_PADDED ==
    <<" ", " ", " ", "b", "a", "d", " ", " ", " ", " ">>

\* "positive"
POSITIVE ==
    <<"p", "o", "s", "i", "t", "i", "v", "e">>

\* "negative"
NEGATIVE ==
    <<"n", "e", "g", "a", "t", "i", "v", "e">>

\* "neutral"
NEUTRAL ==
    <<"n", "e", "u", "t", "r", "a", "l">>

\* "Positive"
POSITIVE_CAP ==
    <<"P", "o", "s", "i", "t", "i", "v", "e">>

\* "NEGATIVE"
NEGATIVE_UP ==
    <<"N", "E", "G", "A", "T", "I", "V", "E">>

\* "123"
S_123 ==
    <<"1", "2", "3">>

\* "456"
S_456 ==
    <<"4", "5", "6">>

\* "789"
S_789 ==
    <<"7", "8", "9">>

\* "Widget"
S_WIDGET ==
    <<"W", "i", "d", "g", "e", "t">>

\* "http://w/123"
S_URL ==
    <<"h", "t", "t", "p", ":", "/", "/", "w", "/", "1", "2", "3">>

\* "4.5"
S_4_5 ==
    <<"4", ".", "5">>

\* "N/A"
S_NA ==
    <<"N", "/", "A">>
\* "multi.json"
F_MULTI ==
    <<"m", "u", "l", "t", "i", ".", "j", "s", "o", "n">>

\* "list.json"
F_LIST ==
    <<"l", "i", "s", "t", ".", "j", "s", "o", "n">>

\* "parr.json"
F_PARR ==
    <<"p", "a", "r", "r", ".", "j", "s", "o", "n">>

\* "empty.json"
F_EMPTY ==
    <<"e", "m", "p", "t", "y", ".", "j", "s", "o", "n">>

\* "brand new text"
T_NEW ==
    <<"b", "r", "a", "n", "d", " ", "n", "e", "w", " ", "t", "e", "x", "t">>

\* "also quite good"
T_ALSO ==
    <<"a", "l", "s", "o", " ", "q", "u", "i", "t", "e", " ", "g", "o", "o", "d">>

\* "hmm not sure"
T_HMM ==
    <<"h", "m", "m", " ", "n", "o", "t", " ", "s", "u", "r", "e">>

\* "Mixed"
MIXED_CAP ==
    <<"M", "i", "x", "e", "d">>

\* "unknown"
UNKNOWN ==
    <<"u", "n", "k", "n", "o", "w", "n">>

\* the sentiment filters the caller can pass (main, lines 449-455)
Filters == {JNull, JStr(POSITIVE), JStr(NEGATIVE), JStr(NEUTRAL)}

\* timestamped file of one product, no product id anywhere
D_KITCHEN ==
    DictDoc(Absent, Absent, Absent, NoField,
            ListField(<<Rev(JStr(T_GREAT), JStr(POSITIVE), JFloat(10600), Absent),
                        Rev(JStr(T_POOR), JStr(NEGATIVE), JInt(-1), Absent)>>))

\* bare list, no product id
D_DECOR ==
    ListDoc(<<Rev(JStr(T_LOVE), JStr(POSITIVE_CAP), JFloat(45), Absent),
              Rev(JInt(1234567890), JStr(NEUTRAL), JInt(0), Absent),
              Rev(JStr(<<>>), JStr(POSITIVE), JInt(5), Absent)>>)

\* bare list whose texts repeat those of other files in another case
D_TOOLS ==
    ListDoc(<<Rev(JStr(T_GREAT_CAPS), JStr(POSITIVE_CAP), JFloat(45), Absent),
              Rev(JStr(T_PADDED), JStr(POSITIVE), JStr(S_4_5), Absent),
              Rev(JStr(T_POOR_CAPS), JStr(NEGATIVE_UP), JFloat(51), Absent)>>)

\* reviews grouped by sentiment, with an 'all' array
D_ID ==
    DictDoc(Absent, Absent, Absent, NoField,
            DictField(Group(<<Rev(JStr(T_LOVE), JStr(POSITIVE), JInt(5), Absent)>>),
                      Group(<<Rev(JStr(T_POOR), JStr(NEGATIVE), JStr(S_NA), Absent),
                              Rev(JStr(T_SHORT), JStr(NEGATIVE), JInt(1), Absent)>>),
                      NoGroup,
                      Group(<<Rev(JStr(T_LOVE), JStr(POSITIVE), JInt(5), Absent),
                              Rev(JStr(T_SHORT), JStr(NEUTRAL), JInt(3), JStr(S_789))>>)))

\* one product with a numeric id; the same text under two sentiments
D_A ==
    DictDoc(JInt(123), JStr(S_WIDGET), JStr(S_URL), NoField,
            ListField(<<Rev(JStr(T_SAME), JStr(NEGATIVE), JInt(3), Absent),
                        Rev(JStr(T_SAME), JStr(POSITIVE), JInt(4), JStr(S_456)),
                        Rev(JStr(T_SHORT), JStr(POSITIVE), JInt(5), Absent)>>))

\* "product_id": null on the document, an id on the review
D_B ==
    DictDoc(JNull, Absent, Absent, NoField,
            ListField(<<Rev(JStr(T_FINE), JStr(NEUTRAL), JNull, JStr(S_123)),
                        RevScored(JStr(T_HMM), JStr(MIXED_CAP), Absent, Absent,
                                  JStr(S_NA), Absent, JFalse)>>))

\* "product_id": "" on the document, an id on the second review
D_C ==
    DictDoc(JStr(<<>>), Absent, Absent, NoField,
            ListField(<<Rev(JStr(T_OKAY), Absent, Absent, JStr(<<>>)),
                        Rev(JStr(T_NICE), JNull, JList, JInt(123))>>))

\* several products in one document, which has a 'reviews' array as well
D_COMBINED ==
    DictDoc(Absent, Absent, Absent,
            ListField(<<ProductObj(JStr(S_123), JStr(S_WIDGET),
                                   ListField(<<Rev(JStr(T_NICE), JStr(POSITIVE), JInt(5), Absent),
                                               Rev(JStr(T_NICE), JStr(POSITIVE), JInt(5), Absent)>>)),
                        ProductObj(JStr(S_456), Absent,
                                   ListField(<<Rev(JStr(T_GREAT), JStr(NEGATIVE), JInt(2),
                                                   JStr(S_789))>>)),
                        ProductObj(JStr(S_789), Absent, NoField)>>),
            ListField(<<Rev(JStr(T_FINE), JStr(NEUTRAL), JInt(4), Absent)>>))

\* one product, twice the same review, in the combined format
D_MULTI ==
    DictDoc(Absent, Absent, Absent,
            ListField(<<ProductObj(JStr(S_123), JStr(S_WIDGET),
                                   ListField(<<RevScored(JStr(T_ALSO), JStr(POSITIVE), JInt(5),
                                                         Absent, JFloat(9), JFloat(8), JTrue),
                                               RevScored(JStr(T_ALSO), JStr(POSITIVE), JInt(5),
                                                         Absent, JFloat(9), JFloat(8), JTrue)>>))>>),
            NoField)

\* bare list of one review that names its product; rating and confidence 0
D_LIST ==
    ListDoc(<<RevScored(JStr(T_NEW), JStr(NEUTRAL), JInt(0), JStr(S_123),
                        JInt(0), JFloat(5), JTrue)>>)

\* a top-level array of product objects, each with a 'reviews' array
D_PARR ==
    ListDoc(<<ArrayEntry(ProductObj(JStr(S_456), JStr(S_WIDGET),
                                    ListField(<<Rev(JStr(T_ALSO), JStr(POSITIVE), JInt(5),
                                                    Absent)>>))),
              ArrayEntry(ProductObj(JStr(S_789), Absent,
                                    ListField(<<Rev(JStr(T_NEW), JStr(NEGATIVE), JInt(1),
                                                    Absent)>>)))>>)

\* a product whose 'reviews' array is empty
D_EMPTY == DictDoc(JStr(S_456), JStr(S_WIDGET), Absent, NoField, ListField(<<>>))

\* a document without reviews
D_NOTES == DictDoc(Absent, JStr(S_WIDGET), Absent, NoField, NoField)

\* an array of strings
D_STRS == ListDoc(<<NotAnObject>>)

FileNames ==
    {F_KITCHEN, F_DECOR, F_TOOLS, F_ID, F_A, F_B, F_C, F_COMBINED, F_BAD, F_NOTES, F_STRS,
     F_MULTI, F_LIST, F_PARR, F_EMPTY}

\* load_json_file: the parsed content, None for a file that does not parse
load_json_file(filepath) ==
    CASE filepath = F_KITCHEN -> D_KITCHEN
      [] filepath = F_DECOR -> D_DECOR
      [] filepath = F_TOOLS -> D_TOOLS
      [] filepath = F_ID -> D_ID
      [] filepath = F_A -> D_A
      [] filepath = F_B -> D_B
      [] filepath = F_C -> D_C
      [] filepath = F_COMBINED -> D_COMBINED
      [] filepath = F_NOTES -> D_NOTES
      [] filepath = F_STRS -> D_STRS
      [] filepath = F_MULTI -> D_MULTI
      [] filepath = F_LIST -> D_LIST
      [] filepath = F_PARR -> D_PARR
      [] filepath = F_EMPTY -> D_EMPTY
      [] OTHER -> NoneDoc

\* longest list of input files
MaxFiles == 2

RECURSIVE FileLists(_)
FileLists(k) ==
    IF k = 0 THEN {<<>>}
    ELSE FileLists(k - 1) \cup
         {Append(fs, f) : fs \in {x \in FileLists(k - 1) : Len(x) = k - 1}, f \in FileNames}

(***************************************************************************)
(* merge_files                                                             *)
(***************************************************************************)
VARIABLES json_files, filter_sentiment, idx, pc, reviews, product_id, rpos,
          kept_count, duplicate_count, filtered_count,
          total_reviews_loaded, total_duplicates_removed, total_filtered_out,
          all_reviews, all_products, seen_review_texts, product_map, combined_data

mergeVars == <<json_files, filter_sentiment, idx, pc, reviews, product_id, rpos,
               kept_count, duplicate_count, filtered_count,
               total_reviews_loaded, total_duplicates_removed, total_filtered_out,
               all_reviews, all_products, seen_review_texts, product_map, combined_data>>

\* save_combined_csv: the reviews to export (each by its keys, in the order
\* of the dict), the header and the rows written
VARIABLES csv_reviews, csv_pc, final_fields, csv_rows

csvVars == <<csv_reviews, csv_pc, final_fields, csv_rows>>

\* main of the scrapers and mark_url_as_completed: the URLs read at the
\* start, the position in them, the lines of the links file and of the
\* *_completed.txt file, the browser session ("up" or "none")
VARIABLES urls, url_idx, pending_lines, completed_lines, scraper

urlVars == <<urls, url_idx, pending_lines, completed_lines, scraper>>

\* WalmartReviewScraper.scrape_reviews, the initial page load
VARIABLES load_url, attempt, load_pc, attempt_log, final_error_message,
          page_loaded_successfully, load_result

loadVars == <<load_url, attempt, load_pc, attempt_log, final_error_message,
              page_loaded_successfully, load_result>>

\* WalmartRequestScraper.scrape_reviews, the loop over the pages
VARIABLES max_reviews, current_page, collected, seen_ids, consecutive_empty_pages,
          consecutive_failures, page_pc, pages_requested

pageVars == <<max_reviews, current_page, collected, seen_ids, consecutive_empty_pages,
              consecutive_failures, page_pc, pages_requested>>

\* generate_dataset of the synthetic generators
VARIABLES num_reviews, num_products, product_idx, product_reviews, seen_texts,
          attempts, failed_attempts, gen_products, gen_pc

genVars == <<num_reviews, num_products, product_idx, product_reviews, seen_texts,
             attempts, failed_attempts, gen_products, gen_pc>>

vars == <<mergeVars, csvVars, urlVars, loadVars, pageVars, genVars>>

\* a program that is not running
MergeIdle ==
    /\ json_files = <<>> /\ filter_sentiment = <<>> /\ idx = 0 /\ pc = "idle"
    /\ reviews = <<>> /\ product_id = <<>> /\ rpos = 0
    /\ kept_count = 0 /\ duplicate_count = 0 /\ filtered_count = 0
    /\ total_reviews_loaded = 0 /\ total_duplicates_removed = 0 /\ total_filtered_out = 0
    /\ all_reviews = <<>> /\ all_products = <<>> /\ seen_review_texts = {}
    /\ product_map = <<>> /\ combined_data = <<>>

CsvIdle == csv_reviews = <<>> /\ csv_pc = "idle" /\ final_fields = <<>> /\ csv_rows = <<>>

UrlsIdle ==
    /\ urls = <<>> /\ url_idx = 0 /\ pending_lines = <<>> /\ completed_lines = <<>>
    /\ scraper = "none"

LoadIdle ==
    /\ load_url = <<>> /\ attempt = 0 /\ load_pc = "idle" /\ attempt_log = <<>>
    /\ final_error_message = <<>> /\ page_loaded_successfully = FALSE /\ load_result = <<>>

PagesIdle ==
    /\ max_reviews = 0 /\ current_page = 0 /\ collected = <<>> /\ seen_ids = {}
    /\ consecutive_empty_pages = 0 /\ consecutive_failures = 0 /\ page_pc = "idle"
    /\ pages_requested = 0

GenIdle ==
    /\ num_reviews = 0 /\ num_products = 0 /\ product_idx = 0 /\ product_reviews = <<>>
    /\ seen_texts = {} /\ attempts = 0 /\ failed_attempts = 0 /\ gen_products = <<>>
    /\ gen_pc = "idle"

\* lines 111: the text under which a review is remembered
Normalize(review_text) == Lower(Strip(PyStr(review_text)))

\* is_duplicate_review comparing the text as written, not its normal form
is_duplicate_review_raw(review_text, seen) ==
    IF ~Truthy(review_text) \/ Len(PyStr(review_text)) < MIN_TEXT_LEN
    THEN [dup |-> TRUE, seen |-> seen]
    ELSE IF PyStr(review_text) \in seen
    THEN [dup |-> TRUE, seen |-> seen]
    ELSE [dup |-> FALSE, seen |-> seen \cup {PyStr(review_text)}]

\* lines 105-117: the verdict and the set of seen texts afterwards
is_duplicate_review(review_text, seen) ==
    IF ~Truthy(review_text) \/ Len(PyStr(review_text)) < MIN_TEXT_LEN
    THEN [dup |-> TRUE, seen |-> seen]
    ELSE IF Normalize(review_text) \in seen
    THEN [dup |-> TRUE, seen |-> seen]
    ELSE [dup |-> FALSE, seen |-> seen \cup {Normalize(review_text)}]

\* SanitizeRating clamping a rating above 5 to 5.0
SanitizeRating_clamp(review) ==
    IF Has(review.rating) /\ review.rating.t # "null"
    THEN IF ~PyFloat(review.rating).ok THEN [review EXCEPT !.rating = JNull]
         ELSE IF PyFloat(review.rating).val > MAX_RATING
         THEN [review EXCEPT !.rating = JFloat(MAX_RATING)]
         ELSE [review EXCEPT !.rating = JFloat(PyFloat(review.rating).val)]
    ELSE review

\* lines 182-191: the rating of a review that is kept
SanitizeRating(review) ==
    IF Has(review.rating) /\ review.rating.t # "null"
    THEN IF ~PyFloat(review.rating).ok THEN [review EXCEPT !.rating = JNull]
         ELSE IF PyFloat(review.rating).val > MAX_RATING
         THEN [review EXCEPT !.rating = JNull]
         ELSE [review EXCEPT !.rating = JFloat(PyFloat(review.rating).val)]
    ELSE review

\* position of a product id in the product map, 0 if it is not a key
ProductIndex(pm, pid) ==
    IF \E k \in 1..Len(pm) : pm[k].product_id = pid
    THEN CHOOSE k \in 1..Len(pm) : pm[k].product_id = pid
    ELSE 0

\* AddToProduct putting the review in the list of every product
AddToProduct_all(pm, k, review) ==
    [j \in 1..Len(pm) |-> [pm[j] EXCEPT !.reviews = Append(@, review)]]

\* line 198: the review goes to the list of the product of its file
AddToProduct(pm, k, review) == [pm EXCEPT ![k].reviews = Append(@, review)]

\* TrackProduct taking the name and the url of the latest file of a product
TrackProduct_rename(pm, product_info) ==
    LET pid == product_info.product_id
        pm1 == IF ProductIndex(pm, pid) = 0
               THEN Append(pm, [product_id |-> pid,
                                product_name |-> product_info.product_name,
                                product_url |-> product_info.product_url,
                                source_files |-> <<>>,
                                reviews |-> <<>>])
               ELSE pm
        k == ProductIndex(pm1, pid)
        listed == \E j \in 1..Len(pm1[k].source_files) :
                      pm1[k].source_files[j] = product_info.source_file
    IN  [pm1 EXCEPT ![k].source_files = IF listed THEN @
                                        ELSE Append(@, product_info.source_file),
                    ![k].product_name = product_info.product_name,
                    ![k].product_url = product_info.product_url]


\* TrackProduct listing the source file without looking for it first
TrackProduct_relist(pm, product_info) ==
    LET pid == product_info.product_id
        pm1 == IF ProductIndex(pm, pid) = 0
               THEN Append(pm, [product_id |-> pid,
                                product_name |-> product_info.product_name,
                                product_url |-> product_info.product_url,
                                source_files |-> <<>>,
                                reviews |-> <<>>])
               ELSE pm
        k == ProductIndex(pm1, pid)
    IN  [pm1 EXCEPT ![k].source_files = Append(@, product_info.source_file)]

\* TrackProduct making a new entry for every file
TrackProduct_fresh(pm, product_info) ==
    Append(pm, [product_id |-> product_info.product_id,
                product_name |-> product_info.product_name,
                product_url |-> product_info.product_url,
                source_files |-> <<product_info.source_file>>,
                reviews |-> <<>>])

\* TrackProduct leaving the source_files of an entry that exists as they are
TrackProduct_unlisted(pm, product_info) ==
    LET pid == product_info.product_id
    IN  IF ProductIndex(pm, pid) = 0
        THEN Append(pm, [product_id |-> pid,
                         product_name |-> product_info.product_name,
                         product_url |-> product_info.product_url,
                         source_files |-> <<product_info.source_file>>,
                         reviews |-> <<>>])
        ELSE pm


\* lines 148-158: the product entry of a file, created on first use
TrackProduct(pm, product_info) ==
    LET pid == product_info.product_id
        pm1 == IF ProductIndex(pm, pid) = 0
               THEN Append(pm, [product_id |-> pid,
                                product_name |-> product_info.product_name,
                                product_url |-> product_info.product_url,
                                source_files |-> <<>>,
                                reviews |-> <<>>])
               ELSE pm
        k == ProductIndex(pm1, pid)
        listed == \E j \in 1..Len(pm1[k].source_files) :
                      pm1[k].source_files[j] = product_info.source_file
    IN  IF listed THEN pm1
        ELSE [pm1 EXCEPT ![k].source_files = Append(@, product_info.source_file)]

Init ==
    /\ json_files \in FileLists(MaxFiles)
    /\ filter_sentiment \in Filters
    /\ idx = 1
    /\ pc = "files"
    /\ reviews = <<>>
    /\ product_id = JNull
    /\ rpos = 1
    /\ kept_count = 0
    /\ duplicate_count = 0
    /\ filtered_count = 0
    /\ total_reviews_loaded = 0
    /\ total_duplicates_removed = 0
    /\ total_filtered_out = 0
    /\ all_reviews = <<>>
    /\ all_products = <<>>
    /\ seen_review_texts = {}
    /\ product_map = <<>>
    /\ combined_data = <<>>
    /\ CsvIdle /\ UrlsIdle /\ LoadIdle /\ PagesIdle /\ GenIdle

Extracted(k) == extract_reviews_from_json(load_json_file(json_files[k]), json_files[k])

\* SkipFile making the product entry of a file before looking at its reviews
SkipFile_tracked ==
    /\ pc = "files"
    /\ idx <= Len(json_files)
    /\ \/ /\ ~DocTruthy(load_json_file(json_files[idx]))
          /\ UNCHANGED product_map
       \/ /\ DocTruthy(load_json_file(json_files[idx]))
          /\ ~Extracted(idx).raised
          /\ Extracted(idx).reviews = <<>>
          /\ product_map' = TrackProduct(product_map, Extracted(idx).product_info)
    /\ idx' = idx + 1
    /\ UNCHANGED <<json_files, filter_sentiment, pc, reviews, product_id, rpos,
                   kept_count, duplicate_count, filtered_count,
                   total_reviews_loaded, total_duplicates_removed, total_filtered_out,
                   all_reviews, all_products, seen_review_texts, combined_data>>
    /\ UNCHANGED <<csvVars, urlVars, loadVars, pageVars, genVars>>


\* lines 132-140: a file that does not load, or holds no review, is passed over
SkipFile ==
    /\ pc = "files"
    /\ idx <= Len(json_files)
    /\ \/ ~DocTruthy(load_json_file(json_files[idx]))
       \/ /\ ~Extracted(idx).raised
          /\ Extracted(idx).reviews = <<>>
    /\ idx' = idx + 1
    /\ UNCHANGED <<json_files, filter_sentiment, pc, reviews, product_id, rpos,
                   kept_count, duplicate_count, filtered_count,
                   total_reviews_loaded, total_duplicates_removed, total_filtered_out,
                   all_reviews, all_products, seen_review_texts, product_map, combined_data>>
    /\ UNCHANGED <<csvVars, urlVars, loadVars, pageVars, genVars>>

\* an exception of extract_reviews_from_json is caught nowhere in merge_files
ExtractFails ==
    /\ pc = "files"
    /\ idx <= Len(json_files)
    /\ DocTruthy(load_json_file(json_files[idx]))
    /\ Extracted(idx).raised
    /\ pc' = "raised"
    /\ UNCHANGED <<json_files, filter_sentiment, idx, reviews, product_id, rpos,
                   kept_count, duplicate_count, filtered_count,
                   total_reviews_loaded, total_duplicates_removed, total_filtered_out,
                   all_reviews, all_products, seen_review_texts, product_map, combined_data>>
    /\ UNCHANGED <<csvVars, urlVars, loadVars, pageVars, genVars>>

\* lines 132-163: load, extract, make sure the product entry exists
StartFile ==
    /\ pc = "files"
    /\ idx <= Len(json_files)
    /\ DocTruthy(load_json_file(json_files[idx]))
    /\ ~Extracted(idx).raised
    /\ Extracted(idx).reviews # <<>>
    /\ reviews' = Extracted(idx).reviews
    /\ total_reviews_loaded' = total_reviews_loaded + Len(Extracted(idx).reviews)
    /\ product_id' = Extracted(idx).product_info.product_id
    /\ product_map' = TrackProduct(product_map, Extracted(idx).product_info)
    /\ kept_count' = 0
    /\ duplicate_count' = 0
    /\ filtered_count' = 0
    /\ rpos' = 1
    /\ pc' = "reviews"
    /\ UNCHANGED <<json_files, filter_sentiment, idx,
                   total_duplicates_removed, total_filtered_out,
                   all_reviews, all_products, seen_review_texts, combined_data>>
    /\ UNCHANGED <<csvVars, urlVars, loadVars, pageVars, genVars>>

\* lines 165-198: one pass of the loop over the reviews of the file
ProcessReview ==
    /\ pc = "reviews"
    /\ rpos <= Len(reviews)
    /\ LET review == reviews[rpos]
           review_text == Get(review.review_text, JStr(<<>>))
           verdict == is_duplicate_review(review_text, seen_review_texts)
           sentiment == Get(review.sentiment, JStr(<<>>))
           kept == SanitizeRating(review)
           k == ProductIndex(product_map, product_id)
       IN  /\ seen_review_texts' = verdict.seen
           /\ IF verdict.dup
              THEN /\ duplicate_count' = duplicate_count + 1
                   /\ rpos' = rpos + 1
                   /\ UNCHANGED <<pc, filtered_count, kept_count, all_reviews, product_map>>
              ELSE IF Truthy(filter_sentiment) /\ sentiment.t # "str"
              \* line 175: .lower() of a sentiment that is no string
              THEN /\ pc' = "raised"
                   /\ UNCHANGED <<rpos, duplicate_count, filtered_count, kept_count,
                                  all_reviews, product_map>>
              ELSE IF Truthy(filter_sentiment)
                      /\ Lower(sentiment.s) # Lower(filter_sentiment.s)
              THEN /\ filtered_count' = filtered_count + 1
                   /\ rpos' = rpos + 1
                   /\ UNCHANGED <<pc, duplicate_count, kept_count, all_reviews, product_map>>
              ELSE /\ all_reviews' = Append(all_reviews, kept)
                   /\ kept_count' = kept_count + 1
                   /\ product_map' = AddToProduct(product_map, k, kept)
                   /\ rpos' = rpos + 1
                   /\ UNCHANGED <<pc, duplicate_count, filtered_count>>
    /\ UNCHANGED <<json_files, filter_sentiment, idx, reviews, product_id,
                   total_reviews_loaded, total_duplicates_removed, total_filtered_out,
                   all_products, combined_data>>
    /\ UNCHANGED <<csvVars, urlVars, loadVars, pageVars, genVars>>

\* lines 200-202: the counts of the file go to the totals
EndFile ==
    /\ pc = "reviews"
    /\ rpos > Len(reviews)
    /\ total_duplicates_removed' = total_duplicates_removed + duplicate_count
    /\ total_filtered_out' = total_filtered_out + filtered_count
    /\ idx' = idx + 1
    /\ pc' = "files"
    /\ UNCHANGED <<json_files, filter_sentiment, reviews, product_id, rpos,
                   kept_count, duplicate_count, filtered_count, total_reviews_loaded,
                   all_reviews, all_products, seen_review_texts, product_map, combined_data>>
    /\ UNCHANGED <<csvVars, urlVars, loadVars, pageVars, genVars>>

(***************************************************************************)
(* build_combined_data                                                     *)
(***************************************************************************)
\* str.upper()
Upper(cs) == [i \in 1..Len(cs) |-> UpperChar(cs[i])]

\* line 223: the histogram as created, a dict in insertion order
InitialSentiments ==
    <<[key |-> POSITIVE, count |-> 0], [key |-> NEGATIVE, count |-> 0],
      [key |-> NEUTRAL, count |-> 0], [key |-> UNKNOWN, count |-> 0]>>

\* lines 230-232: the key a review is counted under
SentimentKey(review) ==
    LET sentiment == Get(review.sentiment, JStr(UNKNOWN))
    IN  IF ~Truthy(sentiment) THEN UNKNOWN ELSE Lower(sentiment.s)

\* CountUnder leaving out a label that is not a key of the histogram
CountUnder_known(sentiments, key) ==
    [k \in 1..Len(sentiments) |->
        IF sentiments[k].key = key
        THEN [sentiments[k] EXCEPT !.count = @ + 1] ELSE sentiments[k]]


\* line 233: sentiments[sentiment] = sentiments.get(sentiment, 0) + 1
CountUnder(sentiments, key) ==
    IF \E k \in 1..Len(sentiments) : sentiments[k].key = key
    THEN [k \in 1..Len(sentiments) |->
            IF sentiments[k].key = key
            THEN [sentiments[k] EXCEPT !.count = @ + 1] ELSE sentiments[k]]
    ELSE Append(sentiments, [key |-> key, count |-> 1])

RECURSIVE CountSentiments(_, _)
CountSentiments(rs, sentiments) ==
    IF rs = <<>> THEN sentiments
    ELSE CountSentiments(Tail(rs), CountUnder(sentiments, SentimentKey(Head(rs))))

\* line 232: .lower() of a sentiment that is true and not a string raises
BuildRaises(rs) ==
    \E k \in 1..Len(rs) :
        Has(rs[k].sentiment) /\ Truthy(rs[k].sentiment) /\ rs[k].sentiment.t # "str"

\* lines 236-237: the ratings that are not None, in tenths
RECURSIVE Ratings(_)
Ratings(rs) ==
    IF rs = <<>> THEN <<>>
    ELSE (IF Has(Head(rs).rating) /\ Head(rs).rating # JNull
          THEN <<Tenths(Head(rs).rating)>> ELSE <<>>) \o Ratings(Tail(rs))

\* lines 239-247: float() of a value that is not None, when it does not raise
Floats(v) == IF Has(v) /\ v # JNull /\ PyFloat(v).ok THEN <<PyFloat(v).val>> ELSE <<>>

RECURSIVE Confidences(_)
Confidences(rs) ==
    IF rs = <<>> THEN <<>> ELSE Floats(Head(rs).confidence) \o Confidences(Tail(rs))

RECURSIVE Scores(_)
Scores(rs) ==
    IF rs = <<>> THEN <<>> ELSE Floats(Head(rs).score) \o Scores(Tail(rs))

RECURSIVE Sum(_)
Sum(xs) == IF xs = <<>> THEN 0 ELSE Head(xs) + Sum(Tail(xs))

\* lines 249-250
RECURSIVE VerifiedCount(_)
VerifiedCount(rs) ==
    IF rs = <<>> THEN 0
    ELSE (IF Has(Head(rs).verified_purchase) /\ Truthy(Head(rs).verified_purchase)
          THEN 1 ELSE 0) + VerifiedCount(Tail(rs))

\* lines 252-254: sum(xs) / len(xs) if xs else None, as the fraction sum / n
Mean(xs) ==
    IF xs = <<>> THEN [none |-> TRUE, sum |-> 0, n |-> 1]
    ELSE [none |-> FALSE, sum |-> Sum(xs), n |-> Len(xs)]

\* round() of the fraction num / den to an integer, a tie going to the even
\* neighbour (round() decides a tie on the binary value of the float)
RoundHalfEven(num, den) ==
    LET q == num \div den
        r == num % den
    IN  IF 2 * r < den THEN q
        ELSE IF 2 * r > den THEN q + 1
        ELSE IF q % 2 = 0 THEN q ELSE q + 1

\* Rounded giving 0 for a missing average
Rounded_zero(mean, scale) ==
    IF mean.none THEN [none |-> FALSE, val |-> 0]
    ELSE IF mean.sum = 0 THEN [none |-> TRUE, val |-> 0]
    ELSE [none |-> FALSE, val |-> RoundHalfEven(mean.sum * scale, mean.n)]

\* lines 264-266: round(avg, digits) if avg else None; the mean is in tenths
\* and val is the rounded mean in units of 1 / (10 * scale)
Rounded(mean, scale) ==
    IF mean.none \/ mean.sum = 0 THEN [none |-> TRUE, val |-> 0]
    ELSE [none |-> FALSE, val |-> RoundHalfEven(mean.sum * scale, mean.n)]

\* lines 219-277; merged_at, the time of the call, is left out
build_combined_data(rs, products, filter) ==
    [total_files_merged |-> Len(products),
     total_products |-> Len(products),
     total_reviews |-> Len(rs),
     sentiment_distribution |-> CountSentiments(rs, InitialSentiments),
     average_rating |-> Rounded(Mean(Ratings(rs)), 10),
     average_confidence |-> Rounded(Mean(Confidences(rs)), 1000),
     average_score |-> Rounded(Mean(Scores(rs)), 1000),
     verified_purchases |-> VerifiedCount(rs),
     verified_percentage |-> IF rs = <<>> THEN 0
                             ELSE RoundHalfEven(VerifiedCount(rs) * 10000, Len(rs)),
     filter |-> IF Truthy(filter)
                THEN JStr(Upper(filter.s) \o <<"_", "O", "N", "L", "Y">>) ELSE Absent,
     products |-> products]

\* lines 204-217: the products array and the returned document
Finish ==
    /\ pc = "files"
    /\ idx > Len(json_files)
    /\ all_products' = product_map
    /\ IF BuildRaises(all_reviews)
       THEN /\ pc' = "raised"
            /\ UNCHANGED combined_data
       ELSE /\ pc' = "done"
            /\ combined_data' = build_combined_data(all_reviews, product_map, filter_sentiment)
    /\ UNCHANGED <<json_files, filter_sentiment, idx, reviews, product_id, rpos,
                   kept_count, duplicate_count, filtered_count,
                   total_reviews_loaded, total_duplicates_removed, total_filtered_out,
                   all_reviews, seen_review_texts, product_map>>
    /\ UNCHANGED <<csvVars, urlVars, loadVars, pageVars, genVars>>

Next ==
    \/ SkipFile
    \/ ExtractFails
    \/ StartFile
    \/ ProcessReview
    \/ EndFile
    \/ Finish

Spec == Init /\ [][Next]_vars

(***************************************************************************)
(* Properties of the merged output                                         *)
(***************************************************************************)
RECURSIVE ReviewsOf(_)
ReviewsOf(products) ==
    IF products = <<>> THEN <<>>
    ELSE Head(products).reviews \o ReviewsOf(Tail(products))

\* the reviews of the merged output, across all products
OutputReviews == ReviewsOf(all_products)

\* trim + lowercase
NormalText(review) == Lower(Strip(PyStr(review.review_text)))

\* C1: after merge_files, with or without a sentiment filter, no two reviews
\* of the merged output, whatever their products, have the same normalized
\* (trimmed, lower-cased) review_text.
C1_UniqueNormalizedText ==
    pc = "done" =>
        \A a, b \in 1..Len(OutputReviews) :
            a # b => NormalText(OutputReviews[a]) # NormalText(OutputReviews[b])

\* a finished merge of two products with reviews in which a text that only
\* differs in case and padding from an accepted one was rejected
C1_Witness ==
    /\ pc = "done"
    /\ Len(all_products) >= 2
    /\ \A k \in 1..Len(all_products) : all_products[k].reviews # <<>>
    /\ \E k \in 1..Len(OutputReviews) : OutputReviews[k].review_text = JStr(T_GREAT)
    /\ \E k \in 1..Len(json_files) : json_files[k] = F_TOOLS
    /\ ~\E k \in 1..Len(OutputReviews) : OutputReviews[k].review_text = JStr(T_GREAT_CAPS)

\* C2: every review accepted into the merge output has a normalized
\* review_text of at least 10 characters, also when the input text is padded
\* with whitespace.
C2_NormalizedTextLongEnough ==
    pc = "done" =>
        \A k \in 1..Len(OutputReviews) : Len(NormalText(OutputReviews[k])) >= 10

\* the text of a candidate is empty or shorter than 10 characters
TextTooShort(review) ==
    \/ ~Has(review.review_text)
    \/ ~Truthy(review.review_text)
    \/ Len(PyStr(review.review_text)) < 10

\* the normalized text of a candidate is that of a review kept in the output
MatchesAccepted(review) ==
    \E k \in 1..Len(all_reviews) : NormalText(all_reviews[k]) = NormalText(review)

\* C3: a candidate review is dropped as a duplicate if and only if its text
\* is empty or shorter than 10 characters, or its normalized text equals that
\* of a review accepted earlier in the run; a review filtered out earlier
\* does not make a later review a duplicate.
C3_DuplicateIffShortOrAccepted ==
    [][(pc = "reviews" /\ rpos' = rpos + 1) =>
        ((duplicate_count' = duplicate_count + 1) <=>
            (TextTooShort(reviews[rpos]) \/ MatchesAccepted(reviews[rpos])))]_vars

\* C4: every product of the merged output has a non-null product_id and no
\* two entries of the products array have the same product_id, also for
\* documents whose product_id is null, empty or numeric.
C4_ProductIdsNonNullUnique ==
    pc = "done" =>
        /\ \A k \in 1..Len(all_products) :
              Has(all_products[k].product_id) /\ all_products[k].product_id # JNull
        /\ \A a, b \in 1..Len(all_products) :
              a # b => all_products[a].product_id # all_products[b].product_id

DocOf(k) == load_json_file(json_files[k])

\* a finished merge of a document with an empty id and one with a numeric id
\* that came to share one product entry
C4_Witness ==
    /\ pc = "done"
    /\ \E k \in 1..Len(json_files) : DocOf(k).product_id = JStr(<<>>)
    /\ \E k \in 1..Len(json_files) : DocOf(k).product_id.t = "int"
    /\ Len(all_products) = 1
    /\ Len(all_products[1].source_files) = 2
    /\ Len(all_products[1].reviews) >= 2

\* the file at the loop position occurs earlier in the list
RepeatedFile == idx <= Len(json_files) /\ \E k \in 1..(idx - 1) : json_files[k] = json_files[idx]

\* C5: a file that appears a second time in the list adds nothing: each of
\* its reviews is rejected as a duplicate and no product entry, source_files
\* entry or review is created, so the counts are those of merging it once.
C5_RepeatedFileAddsNothing ==
    [][RepeatedFile =>
        /\ product_map' = product_map
        /\ all_reviews' = all_reviews
        /\ seen_review_texts' = seen_review_texts
        /\ (pc = "reviews" /\ rpos <= Len(reviews)) => duplicate_count' = duplicate_count + 1]_vars

\* the second copy of a file whose first copy contributed reviews has been
\* processed to its end
C5_Witness ==
    /\ pc = "files"
    /\ idx > 2
    /\ \E k \in 1..(idx - 2) : json_files[k] = json_files[idx - 1]
    /\ reviews = Extracted(idx - 1).reviews
    /\ Len(reviews) >= 2
    /\ duplicate_count = Len(reviews)
    /\ \E k \in 1..Len(all_reviews) : all_reviews[k].source_file = JStr(json_files[idx - 1])

\* C6: with a sentiment filter S, every review of the output has its
\* sentiment field equal to S, the lower-case label, whatever the letter case
\* of the label on input.
C6_OutputSentimentIsFilter ==
    (pc = "done" /\ Truthy(filter_sentiment)) =>
        \A k \in 1..Len(OutputReviews) : OutputReviews[k].sentiment = filter_sentiment

\* the review accepted by the step
Accepted == all_reviews'[Len(all_reviews')]

\* C7: an accepted review with a non-null input rating gets a null rating if
\* the rating does not coerce to a number or exceeds 5 (no clamping, not left
\* as it is); otherwise it keeps the same numeric value, not rounded.
C7_RatingNulledOrKept ==
    [][(pc = "reviews" /\ kept_count' = kept_count + 1
        /\ Has(reviews[rpos].rating) /\ reviews[rpos].rating # JNull) =>
        IF ~PyFloat(reviews[rpos].rating).ok \/ PyFloat(reviews[rpos].rating).val > 10 * 5
        THEN Accepted.rating = JNull
        ELSE /\ Accepted.rating.t \in {"int", "float"}
             /\ Tenths(Accepted.rating) = PyFloat(reviews[rpos].rating).val]_vars

\* the review with the rating 1060.0 has just been accepted, its rating null
C7_Witness ==
    /\ pc = "reviews"
    /\ rpos > 1
    /\ reviews[rpos - 1].rating = JFloat(10600)
    /\ all_reviews # <<>>
    /\ all_reviews[Len(all_reviews)].review_text = reviews[rpos - 1].review_text
    /\ all_reviews[Len(all_reviews)].source_file = reviews[rpos - 1].source_file
    /\ all_reviews[Len(all_reviews)].rating = JNull

\* C8: every rating of the merged output is absent, null or a number in
\* [0, 5], whatever the ratings of the input.
C8_RatingInRange ==
    pc = "done" =>
        \A k \in 1..Len(OutputReviews) :
            \/ ~Has(OutputReviews[k].rating)
            \/ OutputReviews[k].rating = JNull
            \/ /\ OutputReviews[k].rating.t \in {"int", "float"}
               /\ Tenths(OutputReviews[k].rating) >= 0
               /\ Tenths(OutputReviews[k].rating) <= 10 * 5

DOT_JSON == <<".", "j", "s", "o", "n">>

\* walmart_reviews_<name>_<YYYYMMDD>_<HHMMSS>.json
TimestampedFile(f) ==
    /\ Len(f) > 15 + 1 + 1 + 8 + 1 + 6 + 5
    /\ SubSeq(f, 1, 16) = WALMART_REVIEWS \o <<"_">>
    /\ SubSeq(f, Len(f) - 4, Len(f)) = DOT_JSON
    /\ f[Len(f) - 20] = "_"
    /\ \A k \in (Len(f) - 19)..(Len(f) - 12) : IsDigit(f[k])
    /\ f[Len(f) - 11] = "_"
    /\ \A k \in (Len(f) - 10)..(Len(f) - 5) : IsDigit(f[k])

\* the <name> of such a file
TimestampedName(f) == SubSeq(f, 17, Len(f) - 21)

\* no product_id on the document or on any of its reviews
NoIdAnywhere(k) ==
    /\ ~Has(DocOf(k).product_id)
    /\ \A j \in 1..Len(RawReviews(DocOf(k))) : ~Has(RawReviews(DocOf(k))[j].product_id)

\* C9: a document without any product_id, merged from a file named
\* walmart_reviews_<name>_<YYYYMMDD>_<HHMMSS>.json, gets the product id
\* GROUP_<name> and the title-cased, space-separated <name> as product name;
\* the timestamp digits are never the product id.
C9_TimestampedFileGroupId ==
    (pc = "reviews" /\ TimestampedFile(json_files[idx]) /\ NoIdAnywhere(idx)) =>
        /\ product_id = JStr(GROUP_ \o TimestampedName(json_files[idx]))
        /\ product_map[ProductIndex(product_map, product_id)].product_name =
              JStr(Title(Replace(TimestampedName(json_files[idx]), "_", " ")))

\* rule 1: the document's own product_id field
Rule1(k) ==
    LET d == DocOf(k)
    IN  IF d.kind = "dict" /\ Has(d.product_id) /\ PyStr(d.product_id) # <<>>
        THEN [ok |-> TRUE, id |-> PyStr(d.product_id)]
        ELSE [ok |-> FALSE, id |-> <<>>]

\* rule 2: the product_id of the first review that declares a non-empty one
Rule2(k) ==
    LET rs == Extracted(k).reviews
        declaring == {j \in 1..Len(rs) : Has(rs[j].product_id) /\ Truthy(rs[j].product_id)}
    IN  IF declaring # {}
        THEN [ok |-> TRUE,
              id |-> PyStr(rs[CHOOSE j \in declaring : \A m \in declaring : j <= m].product_id)]
        ELSE [ok |-> FALSE, id |-> <<>>]

\* rule 3: a run of 8 or more digits between underscores in the file name
Rule3(k) ==
    [ok |-> SearchProductId(json_files[k]).found, id |-> SearchProductId(json_files[k]).group]

\* rule 4: GROUP_<cleaned file name>
Rule4(k) == [ok |-> TRUE, id |-> GROUP_ \o CleanName(json_files[k])]

\* the first rule that succeeds
RuleUsed(k) ==
    IF Rule1(k).ok THEN 1 ELSE IF Rule2(k).ok THEN 2 ELSE IF Rule3(k).ok THEN 3 ELSE 4

RuleId(k, r) ==
    IF r = 1 THEN Rule1(k).id ELSE IF r = 2 THEN Rule2(k).id
    ELSE IF r = 3 THEN Rule3(k).id ELSE Rule4(k).id

\* C10: the product id of an input file is the id of the first rule that
\* succeeds, in the order document field, first review with a non-empty id,
\* 8 or more digits between underscores in the file name, GROUP_<cleaned file
\* name>; a later rule is never used when an earlier one yields an id.
C10_FirstRuleWins ==
    pc = "reviews" => product_id = JStr(RuleId(idx, RuleUsed(idx)))

\* a file resolved by its first review although its name carries an id and a
\* group name could be made
C10_Witness ==
    /\ pc = "reviews"
    /\ RuleUsed(idx) = 2
    /\ Rule3(idx).ok
    /\ Rule3(idx).id # Rule2(idx).id
    /\ product_id = JStr(Rule2(idx).id)

(***************************************************************************)
(* C11                                                                     *)
(***************************************************************************)
\* the input files that got as far as the product entry
Tracked == {k \in 1..Len(json_files) :
                /\ DocTruthy(load_json_file(json_files[k]))
                /\ ~Extracted(k).raised
                /\ Extracted(k).reviews # <<>>}

EntriesOf(pid) == {e \in 1..Len(all_products) : all_products[e].product_id = pid}

Lists(entry, source_file) ==
    \E j \in 1..Len(entry.source_files) : entry.source_files[j] = source_file

MultiThenList == <<F_MULTI, F_LIST>>

\* C11: after a merge, every input file with reviews has exactly one product
\* entry under the id it resolved to, shared with every other file of that
\* id and listing the file among its source_files; the multi-product file of
\* product "123" (the same text twice) merged with the bare list of one
\* review of product "123" gives one product "123" with 2 reviews and both
\* file names
C11_SameIdOneEntry ==
    pc = "done" =>
        /\ \A k \in Tracked :
             /\ Cardinality(EntriesOf(Extracted(k).product_info.product_id)) = 1
             /\ \A e \in EntriesOf(Extracted(k).product_info.product_id) :
                    Lists(all_products[e], Extracted(k).product_info.source_file)
        /\ (json_files = MultiThenList /\ filter_sentiment = JNull) =>
             /\ Len(all_products) = 1
             /\ all_products[1].product_id = JStr(S_123)
             /\ Len(all_products[1].reviews) = 2
             /\ all_products[1].source_files = <<F_MULTI, F_LIST>>

C11_Witness ==
    /\ pc = "done"
    /\ json_files = MultiThenList
    /\ filter_sentiment = JNull
    /\ Len(all_products) = 1
    /\ Len(all_products[1].reviews) = 2
    /\ Len(all_products[1].source_files) = 2

(***************************************************************************)
(* C12, C13, C14                                                           *)
(***************************************************************************)
\* the document of the file whose reviews are in the loop
Current == DocOf(idx)

TextsOf(rs) == [k \in 1..Len(rs) |-> rs[k].review_text]

\* the texts of the reviews nested under the entries of an array of products
RECURSIVE NestedTexts(_)
NestedTexts(products) ==
    IF products = <<>> THEN <<>>
    ELSE (IF Head(products).reviews.t = "list"
          THEN TextsOf(Head(products).reviews.v) ELSE <<>>) \o NestedTexts(Tail(products))

\* a top-level array of product objects, each with its own reviews array
IsProductArray(data) ==
    /\ data.kind = "list"
    /\ data.items # <<>>
    /\ \A k \in 1..Len(data.items) : data.items[k].obj /\ data.items[k].reviews.t = "list"

\* an object with a 'products' array
HasProductsArray(data) == data.kind = "dict" /\ data.products.t = "list"

\* C12 as stated: the reviews extracted from a top-level array of product
\* objects are the reviews nested under the product objects
C12_ProductArrayIsMultiProduct ==
    (pc = "reviews" /\ IsProductArray(Current)) =>
        TextsOf(reviews) = NestedTexts(Current.items)

\* C12: the reviews extracted from an object with a 'products' array are the
\* reviews nested under its product objects, in order; a top-level array of
\* product objects is read as a bare list, its entries being the records
C12_ProductsKeyIsMultiProduct ==
    pc = "reviews" =>
        /\ HasProductsArray(Current) => TextsOf(reviews) = NestedTexts(Current.products.v)
        /\ IsProductArray(Current) =>
             /\ Len(reviews) = Len(Current.items)
             /\ \A k \in 1..Len(reviews) : reviews[k].reviews = Current.items[k].reviews

C12_Witness ==
    /\ pc = "reviews"
    /\ HasProductsArray(Current)
    /\ Len(Current.products.v) > 1
    /\ Len(reviews) = 3
    /\ reviews[3].review_text = JStr(T_GREAT)

\* the texts a document yields under the shape of highest priority it has
ExpectedTexts(data) ==
    IF HasProductsArray(data) THEN NestedTexts(data.products.v)
    ELSE IF data.kind = "dict" /\ data.reviews.t = "dict"
    THEN TextsOf(GroupReviews(data.reviews.g.positive))
         \o TextsOf(GroupReviews(data.reviews.g.negative))
         \o TextsOf(GroupReviews(data.reviews.g.neutral))
         \o TextsOf(GroupReviews(data.reviews.g.all))
    ELSE IF data.kind = "dict" /\ data.reviews.t = "list" THEN TextsOf(data.reviews.v)
    ELSE IF data.kind = "list" THEN TextsOf(data.items)
    ELSE <<>>

\* C13: the reviews of a document are those of one shape only, the first it
\* has of: products array, sentiment groups, flat reviews array, bare list; a
\* document with both a products array and a reviews field gives the reviews
\* of its products and none of the reviews field
C13_OneExtractionPath ==
    pc = "reviews" => TextsOf(reviews) = ExpectedTexts(Current)

C13_Witness ==
    /\ pc = "reviews"
    /\ HasProductsArray(Current)
    /\ Current.reviews.t = "list"
    /\ Current.reviews.v # <<>>
    /\ \A k \in 1..Len(reviews) : reviews[k].review_text # Current.reviews.v[1].review_text

\* number of reviews nested under the first n entries of a products array
RECURSIVE NestedCount(_, _)
NestedCount(products, n) ==
    IF n = 0 THEN 0
    ELSE NestedCount(products, n - 1)
         + (IF products[n].reviews.t = "list" THEN Len(products[n].reviews.v) ELSE 0)

\* a field of a review of a product: its own if it declares one
Inherited(own, parent) == IF Has(own) THEN own ELSE parent

\* C14: in a document with a products array, each extracted review has the
\* product_id and the product_name it declares, and those of its product
\* object for the fields it does not declare
C14_InheritOnlyUndeclared ==
    (pc = "reviews" /\ HasProductsArray(Current)) =>
        \A p \in 1..Len(Current.products.v) :
            Current.products.v[p].reviews.t = "list" =>
                \A j \in 1..Len(Current.products.v[p].reviews.v) :
                    LET product == Current.products.v[p]
                        declared == product.reviews.v[j]
                        review == reviews[NestedCount(Current.products.v, p - 1) + j]
                    IN  /\ review.product_id
                             = Inherited(declared.product_id, product.product_id)
                        /\ review.product_name
                             = Inherited(declared.product_name, product.product_name)

C14_Witness ==
    /\ pc = "reviews"
    /\ HasProductsArray(Current)
    /\ \E p \in 1..Len(Current.products.v) :
         /\ Current.products.v[p].reviews.t = "list"
         /\ \E j \in 1..Len(Current.products.v[p].reviews.v) :
              LET product == Current.products.v[p]
                  declared == product.reviews.v[j]
                  review == reviews[NestedCount(Current.products.v, p - 1) + j]
              IN  /\ Has(declared.product_id)
                  /\ Has(product.product_id)
                  /\ declared.product_id # product.product_id
                  /\ review.product_id = declared.product_id
    /\ \E k \in 1..Len(reviews) : reviews[k].product_name = JStr(S_WIDGET)

(***************************************************************************)
(* C15                                                                     *)
(***************************************************************************)
\* a single-product document whose reviews field is a mapping
IsGrouped(data) ==
    data.kind = "dict" /\ data.products.t # "list" /\ data.reviews.t = "dict"

NormalTexts(rs) == {NormalText(rs[k]) : k \in 1..Len(rs)}

\* the normalized texts found both in a sentiment array and in 'all'
InSentimentAndAll(data) ==
    (NormalTexts(GroupReviews(data.reviews.g.positive))
        \cup NormalTexts(GroupReviews(data.reviews.g.negative))
        \cup NormalTexts(GroupReviews(data.reviews.g.neutral)))
    \cap NormalTexts(GroupReviews(data.reviews.g.all))

\* how many reviews of the output have the normalized text
TimesInOutput(normal) ==
    Cardinality({k \in 1..Len(OutputReviews) : NormalText(OutputReviews[k]) = normal})

GroupsConcatenated ==
    (pc = "reviews" /\ IsGrouped(Current)) =>
        TextsOf(reviews) = TextsOf(GroupReviews(Current.reviews.g.positive))
                           \o TextsOf(GroupReviews(Current.reviews.g.negative))
                           \o TextsOf(GroupReviews(Current.reviews.g.neutral))
                           \o TextsOf(GroupReviews(Current.reviews.g.all))

\* C15 as stated: the candidates of a document with sentiment groups are the
\* positive, negative, neutral and all arrays one after the other, and a text
\* found in a sentiment array and in all is exactly once in the output
C15_GroupsExactlyOnce ==
    /\ GroupsConcatenated
    /\ pc = "done" =>
         \A k \in 1..Len(json_files) :
             IsGrouped(DocOf(k)) =>
                 \A normal \in InSentimentAndAll(DocOf(k)) : TimesInOutput(normal) = 1

\* C15: the candidates of a document with sentiment groups are the positive,
\* negative, neutral and all arrays one after the other; a text found in a
\* sentiment array and in all is at most once in the output, and exactly
\* once when no sentiment filter is active and its normalized text has at
\* least 10 characters
C15_GroupsAtMostOnce ==
    /\ GroupsConcatenated
    /\ pc = "done" =>
         \A k \in 1..Len(json_files) :
             IsGrouped(DocOf(k)) =>
                 \A normal \in InSentimentAndAll(DocOf(k)) :
                     /\ TimesInOutput(normal) <= 1
                     /\ (filter_sentiment = JNull /\ Len(normal) >= MIN_TEXT_LEN) =>
                            TimesInOutput(normal) = 1

C15_Witness ==
    /\ pc = "done"
    /\ filter_sentiment = JNull
    /\ \E k \in 1..Len(json_files) :
         /\ IsGrouped(DocOf(k))
         /\ DocOf(k).reviews.g.all.has
         /\ \E normal \in InSentimentAndAll(DocOf(k)) :
                Len(normal) >= MIN_TEXT_LEN /\ TimesInOutput(normal) = 1
         /\ \E normal \in InSentimentAndAll(DocOf(k)) : TimesInOutput(normal) = 0

(***************************************************************************)
(* C16, C17                                                                *)
(***************************************************************************)
\* the document has none of the shapes that hold reviews
NoShape(data) ==
    /\ ~HasProductsArray(data)
    /\ ~(data.kind = "dict" /\ data.reviews.t \in {"list", "dict"})
    /\ data.kind # "list"

\* the file at idx does not load, has no shape or holds no review
NothingToMerge ==
    /\ pc = "files"
    /\ idx <= Len(json_files)
    /\ \/ Current.kind = "none"
       \/ NoShape(Current)
       \/ ExpectedTexts(Current) = <<>>

\* C16: the step over a file that fails to load, has no recognized shape or
\* yields no review adds no product entry, no source file, no accepted review
\* and no seen text, and goes on to the next file of the list
C16_SkippedFileChangesNothing ==
    [][NothingToMerge =>
        /\ product_map' = product_map
        /\ all_reviews' = all_reviews
        /\ seen_review_texts' = seen_review_texts
        /\ idx' = idx + 1
        /\ pc' = "files"]_vars

\* a merge that went past a file with an empty reviews array and took the
\* reviews of the file after it
C16_Witness ==
    /\ pc = "done"
    /\ Len(json_files) = 2
    /\ DocOf(1).kind = "dict"
    /\ DocOf(1).reviews.t = "list"
    /\ ExpectedTexts(DocOf(1)) = <<>>
    /\ all_reviews # <<>>
    /\ \A k \in 1..Len(all_products) : all_products[k].source_files = <<Basename(json_files[2])>>

\* C17: merge_files never ends by an exception
C17_NeverRaises == pc # "raised"

(***************************************************************************)
(* C18, C19, C20                                                           *)
(***************************************************************************)
\* the value None of an average
NoAverage == [none |-> TRUE, val |-> 0]

\* C18: a merge of no file ends without an exception, with total_reviews 0,
\* no product, and None for the three averages
C18_EmptyListEmptyResult ==
    json_files = <<>> =>
        /\ pc # "raised"
        /\ pc = "done" =>
             /\ combined_data.total_reviews = 0
             /\ combined_data.products = <<>>
             /\ combined_data.average_rating = NoAverage
             /\ combined_data.average_confidence = NoAverage
             /\ combined_data.average_score = NoAverage

C18_Witness ==
    /\ pc = "done"
    /\ json_files = <<>>
    /\ combined_data.total_reviews = 0
    /\ combined_data.average_rating.none

\* the accepted reviews with a value that is not null under the key
WithRating == {k \in 1..Len(all_reviews) :
                  Has(all_reviews[k].rating) /\ all_reviews[k].rating # JNull}

WithConfidence == {k \in 1..Len(all_reviews) :
                      Has(all_reviews[k].confidence) /\ all_reviews[k].confidence # JNull}

WithScore == {k \in 1..Len(all_reviews) :
                 Has(all_reviews[k].score) /\ all_reviews[k].score # JNull}

\* C19: each average of the result is None exactly when no accepted review
\* has a value that is not null for the field, values of 0 included
C19_AverageNoneIffNoValue ==
    pc = "done" =>
        /\ combined_data.average_rating.none <=> WithRating = {}
        /\ combined_data.average_confidence.none <=> WithConfidence = {}
        /\ combined_data.average_score.none <=> WithScore = {}

\* the label an accepted review is to be counted under
LabelOf(review) ==
    IF ~Has(review.sentiment) \/ ~Truthy(review.sentiment) THEN UNKNOWN
    ELSE Lower(review.sentiment.s)

Histogram == combined_data.sentiment_distribution

KeysOf(sentiments) == {sentiments[k].key : k \in 1..Len(sentiments)}

RECURSIVE CountsSum(_)
CountsSum(sentiments) ==
    IF sentiments = <<>> THEN 0 ELSE Head(sentiments).count + CountsSum(Tail(sentiments))

\* every key of the histogram counts the accepted reviews of that label,
\* every accepted review has its label among the keys, and the counts add up
\* to total_reviews
CountedOnce ==
    /\ \A a, b \in 1..Len(Histogram) : Histogram[a].key = Histogram[b].key => a = b
    /\ \A a \in 1..Len(Histogram) :
           Histogram[a].count
             = Cardinality({k \in 1..Len(all_reviews) : LabelOf(all_reviews[k]) = Histogram[a].key})
    /\ \A k \in 1..Len(all_reviews) : LabelOf(all_reviews[k]) \in KeysOf(Histogram)
    /\ CountsSum(Histogram) = combined_data.total_reviews

SourceFilesOf(product) == {product.source_files[j] : j \in 1..Len(product.source_files)}

\* the input files recorded in the source_files of the products
MergedFiles == UNION {SourceFilesOf(all_products[p]) : p \in 1..Len(all_products)}

\* C21: total_files_merged of the result is the number of distinct input
\* files recorded in the source_files of the products
C21_FilesMergedCountsFiles ==
    pc = "done" => combined_data.total_files_merged = Cardinality(MergedFiles)

\* position in the input list at which a file name is first processed
FirstProcessed(name) ==
    CHOOSE k \in 1..Len(json_files) :
        /\ Basename(json_files[k]) = name
        /\ \A j \in 1..(k - 1) : Basename(json_files[j]) # name

\* C22: the source_files of a product hold no name twice, are in the order
\* in which the files were first processed, and hold a name exactly when a
\* review of the product came from that file
C22_SourceFilesAreContributors ==
    pc = "done" =>
        \A p \in 1..Len(all_products) :
            LET product == all_products[p]
            IN  /\ \A a, b \in 1..Len(product.source_files) :
                       /\ product.source_files[a] = product.source_files[b] => a = b
                       /\ a < b => FirstProcessed(product.source_files[a])
                                     < FirstProcessed(product.source_files[b])
                /\ \A k \in 1..Len(json_files) :
                       Basename(json_files[k]) \in SourceFilesOf(product)
                         <=> \E j \in 1..Len(product.reviews) :
                                 product.reviews[j].source_file = JStr(Basename(json_files[k]))

\* C23: every review of the output has a product_id, that of the product
\* entry whose reviews hold it
C23_ReviewCarriesProductId ==
    pc = "done" =>
        \A p \in 1..Len(all_products) :
            \A j \in 1..Len(all_products[p].reviews) :
                /\ Has(all_products[p].reviews[j].product_id)
                /\ JStr(PyStr(all_products[p].reviews[j].product_id))
                     = all_products[p].product_id

(***************************************************************************)
(* C29, C30                                                                *)
(***************************************************************************)
\* the places of a review in the reviews lists of the products
PlacesOf(review) ==
    {pj \in (1..Len(product_map)) \X (1..Len(all_reviews)) :
        /\ pj[2] <= Len(product_map[pj[1]].reviews)
        /\ product_map[pj[1]].reviews[pj[2]] = review}

\* the place of a review in the flat list
FlatPlaces(review) == {k \in 1..Len(all_reviews) : all_reviews[k] = review}

RECURSIVE ReviewsTotal(_)
ReviewsTotal(products) ==
    IF products = <<>> THEN 0 ELSE Len(Head(products).reviews) + ReviewsTotal(Tail(products))

\* position of a review among the candidates of its file
PlaceInFile(review) ==
    LET k == FirstProcessed(review.source_file.s)
    IN  CHOOSE j \in 1..Len(Extracted(k).reviews) :
            /\ NormalText(Extracted(k).reviews[j]) = NormalText(review)
            /\ \A i \in 1..(j - 1) : NormalText(Extracted(k).reviews[i]) # NormalText(review)

\* a review arrived before another: earlier file, or earlier in the same file
ArrivedBefore(a, b) ==
    \/ FirstProcessed(a.source_file.s) < FirstProcessed(b.source_file.s)
    \/ /\ a.source_file = b.source_file
       /\ PlaceInFile(a) < PlaceInFile(b)

\* C29: at every point of a merge each accepted review is once in the flat
\* list and in the reviews of exactly one product, the reviews of a product
\* are in arrival order (file order, then order in the file), and in the
\* result total_reviews is the sum of the lengths of the products' reviews
C29_EachReviewInOneProduct ==
    /\ \A k \in 1..Len(all_reviews) :
           /\ Cardinality(FlatPlaces(all_reviews[k])) = 1
           /\ Cardinality(PlacesOf(all_reviews[k])) = 1
    /\ ReviewsTotal(product_map) = Len(all_reviews)
    /\ \A p \in 1..Len(product_map) :
           \A i, j \in 1..Len(product_map[p].reviews) :
               i < j => ArrivedBefore(product_map[p].reviews[i], product_map[p].reviews[j])
    /\ pc = "done" => combined_data.total_reviews = ReviewsTotal(combined_data.products)

\* a result with two products that both hold reviews
C29_Witness ==
    /\ pc = "done"
    /\ Len(combined_data.products) = 2
    /\ Len(combined_data.products[1].reviews) > 1
    /\ Len(combined_data.products[2].reviews) > 0
    /\ combined_data.total_reviews > 2

\* C30: a step of the merge leaves the product_id, the product_name and the
\* product_url of every product entry as they are and keeps the entries in
\* their order, new ones going to the end; the products array of the result
\* is the entries in that order
C30_EntryFixedByFirstFile ==
    [][/\ Len(product_map') >= Len(product_map)
       /\ \A k \in 1..Len(product_map) :
              /\ product_map'[k].product_id = product_map[k].product_id
              /\ product_map'[k].product_name = product_map[k].product_name
              /\ product_map'[k].product_url = product_map[k].product_url
       /\ pc' = "done" => all_products' = product_map]_vars

\* a result where a later file of a product carried another name than the
\* first file, which is the one the entry has
C30_Witness ==
    /\ pc = "done"
    /\ \E a, b \in Tracked :
         /\ a < b
         /\ Extracted(a).product_info.product_id = Extracted(b).product_info.product_id
         /\ Extracted(a).product_info.product_name # Extracted(b).product_info.product_name
         /\ \E p \in 1..Len(all_products) :
                /\ all_products[p].product_id = Extracted(a).product_info.product_id
                /\ all_products[p].product_name = Extracted(a).product_info.product_name
                /\ Len(all_products[p].source_files) = 2

(***************************************************************************)
(* save_combined_csv                                                       *)
(***************************************************************************)
\* line 307: preferred_order
PREFERRED_ORDER ==
    <<"product_id", "product_name", "product_url", "reviewer_name", "rating",
      "sentiment", "confidence", "score", "roberta_label", "method", "title",
      "review_text", "date", "verified_purchase", "helpful_count", "source_file">>

\* reviews by their keys, in the order of the dict
ReviewKeys ==
    {<<"review_text", "rating">>,
     <<"review_text", "images", "brand">>,
     <<"rating", "brand", "images", "review_text">>,
     <<"color", "review_text", "source_file">>,
     <<"source_file", "product_id", "review_text", "images", "color">>,
     <<"sentiment", "review_text">>}

\* longest list of reviews to export
MaxRows == 2

RECURSIVE ReviewLists(_)
ReviewLists(k) ==
    IF k = 0 THEN {<<>>}
    ELSE ReviewLists(k - 1)
         \cup {Append(rs, r) : rs \in {l \in ReviewLists(k - 1) : Len(l) = k - 1},
                               r \in ReviewKeys}

KeySet(review) == {review[i] : i \in 1..Len(review)}

\* lines 302-304: the set of the keys of all reviews
FieldNames(rs) == UNION {KeySet(rs[k]) : k \in 1..Len(rs)}

InPreferred(f) == \E i \in 1..Len(PREFERRED_ORDER) : PREFERRED_ORDER[i] = f

\* line 313: the preferred keys that are present, in the preferred order
PreferredFields(fieldnames) ==
    SelectSeq(PREFERRED_ORDER, LAMBDA f : f \in fieldnames)

\* the orders in which 'for f in fieldnames' can enumerate a set of strings:
\* the order follows the hashes of the strings, which change from one run of
\* the interpreter to the next
IterationOrders(S) ==
    {order \in [1..Cardinality(S) -> S] :
        \A a, b \in 1..Cardinality(S) : order[a] = order[b] => a = b}

\* lines 317-320: a row has a cell for each column, empty when the review
\* lacks the key
WrittenRow(review, header) == [i \in 1..Len(header) |-> header[i] \in KeySet(review)]

InitCsv ==
    /\ csv_reviews \in ReviewLists(MaxRows)
    /\ csv_pc = "start"
    /\ final_fields = <<>>
    /\ csv_rows = <<>>
    /\ MergeIdle /\ UrlsIdle /\ LoadIdle /\ PagesIdle /\ GenIdle

\* lines 297-299: nothing to save
SaveNothing ==
    /\ csv_pc = "start"
    /\ csv_reviews = <<>>
    /\ csv_pc' = "none"
    /\ UNCHANGED <<csv_reviews, final_fields, csv_rows>>
    /\ UNCHANGED <<mergeVars, urlVars, loadVars, pageVars, genVars>>

\* lines 301-323
SaveCsv ==
    /\ csv_pc = "start"
    /\ csv_reviews # <<>>
    /\ LET fieldnames == FieldNames(csv_reviews)
           extras == {f \in fieldnames : ~InPreferred(f)}
       IN  \E order \in IterationOrders(extras) :
               /\ final_fields' = PreferredFields(fieldnames) \o order
               /\ csv_rows' = [k \in 1..Len(csv_reviews) |->
                                  WrittenRow(csv_reviews[k], final_fields')]
    /\ csv_pc' = "saved"
    /\ UNCHANGED csv_reviews
    /\ UNCHANGED <<mergeVars, urlVars, loadVars, pageVars, genVars>>

NextCsv ==
    \/ SaveNothing
    \/ SaveCsv

SpecCsv == InitCsv /\ [][NextCsv]_vars

\* the keys outside the preferred order, as they are first met when the
\* reviews are scanned in order
RECURSIVE DiscoveryOrder(_, _)
DiscoveryOrder(keys, found) ==
    IF keys = <<>> THEN found
    ELSE DiscoveryOrder(Tail(keys),
                        IF InPreferred(Head(keys))
                           \/ \E i \in 1..Len(found) : found[i] = Head(keys)
                        THEN found ELSE Append(found, Head(keys)))

RECURSIVE AllKeys(_)
AllKeys(rs) == IF rs = <<>> THEN <<>> ELSE Head(rs) \o AllKeys(Tail(rs))

\* C24: the header of the CSV export holds every key of the reviews once:
\* the preferred keys that are present, in the preferred order, then the
\* other keys in the order in which the scan of the reviews first met them
C24_HeaderInDiscoveryOrder ==
    csv_pc = "saved" =>
        final_fields = PreferredFields(FieldNames(csv_reviews))
                       \o DiscoveryOrder(AllKeys(csv_reviews), <<>>)

(***************************************************************************)
(* MUTILINK_SCRAPERv2.py: read_urls_from_file, mark_url_as_completed and   *)
(* the loop of main over the URLs of a links file                          *)
(***************************************************************************)
\* "w.com/ip/12"
U_12 == <<"w", ".", "c", "o", "m", "/", "i", "p", "/", "1", "2">>

\* "w.com/ip/123"
U_123 == <<"w", ".", "c", "o", "m", "/", "i", "p", "/", "1", "2", "3">>

\* "w.com/ip/77"
U_77 == <<"w", ".", "c", "o", "m", "/", "i", "p", "/", "7", "7">>

\* "# old"
L_COMMENT == <<"#", " ", "o", "l", "d">>

\* an empty line
L_BLANK == <<>>

FileLines == {U_12, U_123, U_77, L_COMMENT, L_BLANK}

\* longest links file, in lines
MaxLines == 3

RECURSIVE LinkFiles(_)
LinkFiles(k) ==
    IF k = 0 THEN {<<>>}
    ELSE LinkFiles(k - 1)
         \cup {Append(ls, l) : ls \in {f \in LinkFiles(k - 1) : Len(f) = k - 1},
                               l \in FileLines}

\* sub in line
Contains(line, sub) ==
    \E i \in 0..(Len(line) - Len(sub)) : SubSeq(line, i + 1, i + Len(sub)) = sub

\* lines 763-775: the lines that are neither empty nor a comment
read_urls_from_file(lines) ==
    LET kept == SelectSeq(lines, LAMBDA line :
                              Strip(line) # <<>> /\ ~StartsWith(Strip(line), <<"#">>))
    IN  [k \in 1..Len(kept) |-> Strip(kept[k])]

\* lines 787-790: the lines written back to the links file
Remaining(lines, completed_url) ==
    SelectSeq(lines, LAMBDA line : Strip(line) # <<>> /\ ~Contains(line, completed_url))

InitUrls ==
    /\ pending_lines \in LinkFiles(MaxLines)
    /\ urls = read_urls_from_file(pending_lines)
    /\ url_idx = 1
    /\ completed_lines = <<>>
    /\ scraper = "up"
    /\ MergeIdle /\ CsvIdle /\ LoadIdle /\ PagesIdle /\ GenIdle

\* lines 916-926: the session is gone and does not come back; the URL is
\* passed over and stays in the links file
RestartFails ==
    /\ url_idx <= Len(urls)
    /\ scraper = "none"
    /\ url_idx' = url_idx + 1
    /\ UNCHANGED <<urls, pending_lines, completed_lines, scraper>>
    /\ UNCHANGED <<mergeVars, csvVars, loadVars, pageVars, genVars>>

\* lines 916-995 and 778-807: the URL is scraped (reviews, no reviews,
\* CAPTCHA, page error or an exception, which ends the session) and then
\* marked as completed; the note after the URL in the completed file (time,
\* product id) is left out
ScrapeAndMark ==
    /\ url_idx <= Len(urls)
    /\ \E failed \in BOOLEAN :
           scraper' = IF failed THEN "none" ELSE "up"
    /\ pending_lines' = Remaining(pending_lines, urls[url_idx])
    /\ completed_lines' = Append(completed_lines, urls[url_idx])
    /\ url_idx' = url_idx + 1
    /\ UNCHANGED urls
    /\ UNCHANGED <<mergeVars, csvVars, loadVars, pageVars, genVars>>

NextUrls ==
    \/ RestartFails
    \/ ScrapeAndMark

SpecUrls == InitUrls /\ [][NextUrls]_vars

Holds(lines, url) == \E k \in 1..Len(lines) : Strip(lines[k]) = url

\* C25: every URL of the links file is, at any time, in the links file or
\* in the completed file
C25_UrlPendingOrCompleted ==
    \A k \in 1..Len(urls) : Holds(pending_lines, urls[k]) \/ Holds(completed_lines, urls[k])

(***************************************************************************)
(* MUTILINK_SCRAPERv2.py: WalmartReviewScraper.scrape_reviews, from the    *)
(* product id to the end of the retry loop of the initial page load        *)
(***************************************************************************)
\* "w.com/ip/tv/123"
U_NAMED == <<"w", ".", "c", "o", "m", "/", "i", "p", "/", "t", "v", "/", "1", "2", "3">>

\* "w.com/cart"
U_CART == <<"w", ".", "c", "o", "m", "/", "c", "a", "r", "t">>

\* "w.com/p?itemId=7"
U_ITEM == <<"w", ".", "c", "o", "m", "/", "p", "?", "i", "t", "e", "m", "I", "d", "=", "7">>

\* "w.com/45?x"
U_QUERY == <<"w", ".", "c", "o", "m", "/", "4", "5", "?", "x">>

LoadUrls == {U_NAMED, U_12, U_CART, U_ITEM, U_QUERY}

\* length of the run of digits of s that starts at position i
RECURSIVE DigitRun(_, _)
DigitRun(s, i) == IF i <= Len(s) /\ IsDigit(s[i]) THEN 1 + DigitRun(s, i + 1) ELSE 0

\* s holds lit at position i
LitAt(s, i, lit) == i >= 1 /\ i + Len(lit) - 1 <= Len(s) /\ SubSeq(s, i, i + Len(lit) - 1) = lit

\* position of the first "/" of s at or after i, or 0
RECURSIVE NextSlash(_, _)
NextSlash(s, i) ==
    IF i > Len(s) THEN 0 ELSE IF s[i] = "/" THEN i ELSE NextSlash(s, i + 1)

\* r'/ip/[^/]+/(\d+)' matched at position i: the position of the digits, or 0
NamedAt(s, i) ==
    IF LitAt(s, i, <<"/", "i", "p", "/">>)
       /\ NextSlash(s, i + 4) > i + 4
       /\ DigitRun(s, NextSlash(s, i + 4) + 1) > 0
    THEN NextSlash(s, i + 4) + 1 ELSE 0

\* r'/(\d+)\?'
QueryAt(s, i) ==
    IF LitAt(s, i, <<"/">>) /\ DigitRun(s, i + 1) > 0
       /\ LitAt(s, i + 1 + DigitRun(s, i + 1), <<"?">>)
    THEN i + 1 ELSE 0

\* r'/(\d+)$'
TailAt(s, i) ==
    IF LitAt(s, i, <<"/">>) /\ DigitRun(s, i + 1) > 0 /\ i + DigitRun(s, i + 1) = Len(s)
    THEN i + 1 ELSE 0

\* r'itemId=(\d+)'
ItemIdAt(s, i) ==
    IF LitAt(s, i, <<"i", "t", "e", "m", "I", "d", "=">>) /\ DigitRun(s, i + 7) > 0
    THEN i + 7 ELSE 0

\* re.search: the group of the leftmost match of the pattern, or NoId
NoId == <<"N", "o", "n", "e", " ">>

Search(s, At(_, _)) ==
    IF \E i \in 1..Len(s) : At(s, i) > 0
    THEN LET i == CHOOSE i \in 1..Len(s) :
                      At(s, i) > 0 /\ \A j \in 1..(i - 1) : At(s, j) = 0
         IN  SubSeq(s, At(s, i), At(s, i) + DigitRun(s, At(s, i)) - 1)
    ELSE NoId

\* lines 247-260
extract_product_id(url) ==
    IF Search(url, NamedAt) # NoId THEN Search(url, NamedAt)
    ELSE IF Search(url, QueryAt) # NoId THEN Search(url, QueryAt)
    ELSE IF Search(url, TailAt) # NoId THEN Search(url, TailAt)
    ELSE Search(url, ItemIdAt)

\* line 564
max_retries == 3

\* line 286: element.text[:100]
ERROR_TEXT_LEN == 100

\* "Sorry"
E_SORRY == <<"S", "o", "r", "r", "y">>

\* "404"
E_404 == <<"4", "0", "4">>

\* the texts of the elements an error indicator can match; an element
\* matched by its class (error-page, error-message) may have no text
ElementTexts == {E_SORRY, E_404, <<>>}

\* what an attempt finds: whether the navigation succeeded, whether a
\* CAPTCHA element is displayed, and whether an error indicator is
\* displayed and with which text
Pages ==
    [nav : {FALSE}, captcha : {FALSE}, indicator : {FALSE}, text : {<<>>}]
    \cup [nav : {TRUE}, captcha : BOOLEAN, indicator : {FALSE}, text : {<<>>}]
    \cup [nav : {TRUE}, captcha : BOOLEAN, indicator : {TRUE}, text : ElementTexts]

\* lines 262-293: the text of the displayed element cut to 100 characters,
\* or no value
NoError == <<"N", "o", "n", "e">>

check_for_errors(page) ==
    IF page.indicator
    THEN SubSeq(page.text, 1, IF Len(page.text) < ERROR_TEXT_LEN THEN Len(page.text)
                                                                 ELSE ERROR_TEXT_LEN)
    ELSE NoError

\* the truth value of an optional string: no value and the empty string are false
IsTrue(message) == message # NoError /\ message # <<>>

InitLoad ==
    /\ load_url \in LoadUrls
    /\ attempt = 0
    /\ load_pc = "start"
    /\ attempt_log = <<>>
    /\ final_error_message = NoError
    /\ page_loaded_successfully = FALSE
    /\ load_result = <<>>
    /\ MergeIdle /\ CsvIdle /\ UrlsIdle /\ PagesIdle /\ GenIdle

loadFrame == UNCHANGED <<mergeVars, csvVars, urlVars, pageVars, genVars>>

\* lines 553-556: no product id in the URL
InvalidUrl ==
    /\ load_pc = "start"
    /\ extract_product_id(load_url) = NoId
    /\ load_pc' = "raised"
    /\ load_result' = [raised |-> "ValueError"]
    /\ UNCHANGED <<load_url, attempt, attempt_log, final_error_message, page_loaded_successfully>>
    /\ loadFrame

\* lines 553-566
StartLoad ==
    /\ load_pc = "start"
    /\ extract_product_id(load_url) # NoId
    /\ load_pc' = "loading"
    /\ UNCHANGED <<load_url, attempt, attempt_log, final_error_message, page_loaded_successfully,
                   load_result>>
    /\ loadFrame

\* lines 568-579: driver.get or driver.refresh raises WebDriverException
NavigationFails ==
    /\ load_pc = "loading"
    /\ \E page \in Pages :
           /\ ~page.nav
           /\ attempt_log' = Append(attempt_log, page)
    /\ IF attempt = max_retries - 1
       THEN /\ load_pc' = "raised"
            /\ load_result' = [raised |-> "Failed to load URL"]
            /\ UNCHANGED attempt
       ELSE /\ attempt' = attempt + 1
            /\ UNCHANGED <<load_pc, load_result>>
    /\ UNCHANGED <<load_url, final_error_message, page_loaded_successfully>>
    /\ loadFrame

\* lines 583-592
CaptchaDetected ==
    /\ load_pc = "loading"
    /\ \E page \in Pages :
           /\ page.nav /\ page.captcha
           /\ attempt_log' = Append(attempt_log, page)
    /\ load_pc' = "returned"
    /\ load_result' = [product_id |-> extract_product_id(load_url), skipped |-> TRUE,
                       captcha_detected |-> TRUE, error |-> NoError]
    /\ UNCHANGED <<load_url, attempt, final_error_message, page_loaded_successfully>>
    /\ loadFrame

\* lines 594-606 and 612-620: an error message; reload, or after the last
\* attempt the skipped result
ErrorPage ==
    /\ load_pc = "loading"
    /\ \E page \in Pages :
           /\ page.nav /\ ~page.captcha
           /\ IsTrue(check_for_errors(page))
           /\ attempt_log' = Append(attempt_log, page)
           /\ final_error_message' = check_for_errors(page)
    /\ IF attempt < max_retries - 1
       THEN /\ attempt' = attempt + 1
            /\ UNCHANGED <<load_pc, load_result>>
       ELSE /\ load_pc' = "returned"
            /\ load_result' = [product_id |-> extract_product_id(load_url), skipped |-> TRUE,
                               captcha_detected |-> FALSE, error |-> final_error_message']
            /\ UNCHANGED attempt
    /\ UNCHANGED <<load_url, page_loaded_successfully>>
    /\ loadFrame

\* lines 607-610 and 622: no error message; the extraction begins
PageLoaded ==
    /\ load_pc = "loading"
    /\ \E page \in Pages :
           /\ page.nav /\ ~page.captcha
           /\ ~IsTrue(check_for_errors(page))
           /\ attempt_log' = Append(attempt_log, page)
    /\ page_loaded_successfully' = TRUE
    /\ load_pc' = "extracting"
    /\ UNCHANGED <<load_url, attempt, final_error_message, load_result>>
    /\ loadFrame

NextLoad ==
    \/ InvalidUrl
    \/ StartLoad
    \/ NavigationFails
    \/ CaptchaDetected
    \/ ErrorPage
    \/ PageLoaded

SpecLoad == InitLoad /\ [][NextLoad]_vars

LastAttempt == attempt_log[Len(attempt_log)]

\* the attempts that found an error page
ErrorAttempts == {k \in 1..Len(attempt_log) :
                      attempt_log[k].nav /\ ~attempt_log[k].captcha /\ attempt_log[k].indicator}

Latest(S) == CHOOSE k \in S : \A j \in S : j <= k

AtMostThreeAttempts == Len(attempt_log) <= 3

CaptchaEndsTheCall ==
    \A k \in 1..Len(attempt_log) :
        attempt_log[k].nav /\ attempt_log[k].captcha
        => /\ k = Len(attempt_log)
           /\ load_pc = "returned"
           /\ load_result.skipped /\ load_result.captcha_detected

ErrorPageReloads ==
    \A k \in ErrorAttempts :
        k < 3 /\ k = Len(attempt_log) => load_pc = "loading"

ExtractionAfterCleanAttempt ==
    load_pc = "extracting"
    => /\ attempt_log # <<>>
       /\ LastAttempt.nav /\ ~LastAttempt.captcha /\ ~LastAttempt.indicator

OtherwiseSkippedOrRaised ==
    /\ load_pc = "returned" /\ ~load_result.captcha_detected
       => /\ Len(attempt_log) = 3
          /\ load_result.skipped
          /\ ErrorAttempts # {}
          /\ load_result.error = check_for_errors(attempt_log[Latest(ErrorAttempts)])
    /\ load_pc = "raised" /\ attempt_log # <<>>
       => Len(attempt_log) = 3 /\ ~LastAttempt.nav

\* C26: the page load makes at most 3 attempts; a CAPTCHA on any attempt
\* ends the call at once with a skipped result flagged captcha_detected; an
\* error page on a non-final attempt triggers a reload; the extraction
\* begins only after an attempt whose navigation succeeded and that found
\* neither CAPTCHA nor error page; otherwise after the third attempt the
\* call returns a skipped result with the last error message or raises
C26_PageLoadAttempts ==
    /\ AtMostThreeAttempts
    /\ CaptchaEndsTheCall
    /\ ErrorPageReloads
    /\ ExtractionAfterCleanAttempt
    /\ OtherwiseSkippedOrRaised

(***************************************************************************)
(* REQUEST_SCRAPER.py: the pagination loop of                              *)
(* WalmartRequestScraper.scrape_reviews                                    *)
(***************************************************************************)
\* line 192: the reviews of one page
REVIEWS_PER_PAGE == 20

\* line 192
EXTRA_PAGES == 5

\* line 195
MAX_CONSECUTIVE_FAILURES == 3

\* line 196
MAX_EMPTY_PAGES == 3

\* line 296: the shortest review text that is kept
SHORT_TEXT == 3

\* largest of the small targets
MaxReviews == 2

\* longest list of customerReviews of a page
MaxPageLen == 2

\* the targets: the small ones and one that asks for a page more
Targets == (0..MaxReviews) \cup {REVIEWS_PER_PAGE}

max_possible_pages == (max_reviews \div REVIEWS_PER_PAGE) + EXTRA_PAGES

\* the value of reviewId when the key is absent
NO_ID == 0

\* an element of customerReviews: its reviewId, the length of its
\* reviewText, or an element that is not an object (its .get raises)
CustomerReviews ==
    [bad : {FALSE}, id : {NO_ID, 1, 2}, len : {SHORT_TEXT - 1, SHORT_TEXT}]
    \cup [bad : {TRUE}, id : {NO_ID}, len : {0}]

RECURSIVE RawPages(_)
RawPages(k) ==
    IF k = 0 THEN {<<>>}
    ELSE RawPages(k - 1)
         \cup {Append(p, r) : p \in {q \in RawPages(k - 1) : Len(q) = k - 1}, r \in CustomerReviews}

\* lines 283-321 without the test of seen_ids
RECURSIVE ProcessPage_unseen(_, _, _, _)
ProcessPage_unseen(page, i, limit, st) ==
    IF i > Len(page) \/ st.raised \/ Len(st.all) >= limit THEN st
    ELSE IF page[i].bad THEN [st EXCEPT !.raised = TRUE]
    ELSE IF page[i].len < SHORT_TEXT
    THEN ProcessPage_unseen(page, i + 1, limit, [st EXCEPT !.seen = @ \cup {page[i].id}])
    ELSE ProcessPage_unseen(page, i + 1, limit,
                            [st EXCEPT !.seen = @ \cup {page[i].id},
                                       !.all = Append(@, [id |-> page[i].id, len |-> page[i].len]),
                                       !.new = @ + 1])

\* lines 283-321: the loop over the raw reviews of a page; st holds
\* all_reviews, seen_ids, new_reviews_found_on_page and whether an
\* exception has left the loop
RECURSIVE ProcessPage(_, _, _, _)
ProcessPage(page, i, limit, st) ==
    IF i > Len(page) \/ st.raised \/ Len(st.all) >= limit THEN st
    ELSE IF page[i].bad THEN [st EXCEPT !.raised = TRUE]
    ELSE IF page[i].id \in st.seen THEN ProcessPage(page, i + 1, limit, st)
    ELSE IF page[i].len < SHORT_TEXT
    THEN ProcessPage(page, i + 1, limit, [st EXCEPT !.seen = @ \cup {page[i].id}])
    ELSE ProcessPage(page, i + 1, limit,
                     [st EXCEPT !.seen = @ \cup {page[i].id},
                                !.all = Append(@, [id |-> page[i].id, len |-> page[i].len]),
                                !.new = @ + 1])

InitPages ==
    /\ max_reviews \in Targets
    /\ current_page = 1
    /\ collected = <<>>
    /\ seen_ids = {}
    /\ consecutive_empty_pages = 0
    /\ consecutive_failures = 0
    /\ page_pc = "loop"
    /\ pages_requested = 0
    /\ MergeIdle /\ CsvIdle /\ UrlsIdle /\ LoadIdle /\ GenIdle

pagesFrame == UNCHANGED <<mergeVars, csvVars, urlVars, loadVars, genVars>>

\* line 200
LoopGoesOn ==
    page_pc = "loop" /\ Len(collected) < max_reviews /\ current_page <= max_possible_pages

\* lines 350-361: after the loop
AfterLoop(all) == IF all = <<>> THEN "raised" ELSE "returned"

\* lines 210-220 and 333-348: a status other than 200, a timeout, or an
\* exception before the page is read
FetchFails ==
    /\ LoopGoesOn
    /\ pages_requested' = pages_requested + 1
    /\ consecutive_failures' = consecutive_failures + 1
    /\ IF consecutive_failures' >= MAX_CONSECUTIVE_FAILURES
       THEN page_pc' = AfterLoop(collected) /\ UNCHANGED current_page
       ELSE current_page' = current_page + 1 /\ UNCHANGED page_pc
    /\ UNCHANGED <<max_reviews, collected, seen_ids, consecutive_empty_pages>>
    /\ pagesFrame

\* lines 222-279: status 200 and no data script, a JSON error, a structure
\* error or no customerReviews
PageWithoutReviews ==
    /\ LoopGoesOn
    /\ pages_requested' = pages_requested + 1
    /\ consecutive_failures' = 0
    /\ consecutive_empty_pages' = consecutive_empty_pages + 1
    /\ IF consecutive_empty_pages' >= MAX_EMPTY_PAGES
       THEN page_pc' = AfterLoop(collected) /\ UNCHANGED current_page
       ELSE current_page' = current_page + 1 /\ UNCHANGED page_pc
    /\ UNCHANGED <<max_reviews, collected, seen_ids>>
    /\ pagesFrame

\* lines 222, 267 and 281-331: a page of raw reviews; an exception in the
\* middle of the page goes to the handler of lines 341-348, where the
\* failure counter, reset at line 222, becomes 1
PageOfReviews ==
    /\ LoopGoesOn
    /\ pages_requested' = pages_requested + 1
    /\ \E page \in RawPages(MaxPageLen) \ {<<>>} :
           LET st == ProcessPage(page, 1, max_reviews,
                                 [all |-> collected, seen |-> seen_ids, new |-> 0,
                                  raised |-> FALSE])
           IN  /\ collected' = st.all
               /\ seen_ids' = st.seen
               /\ IF st.raised
                  THEN /\ consecutive_failures' = 1
                       /\ UNCHANGED consecutive_empty_pages
                  ELSE /\ consecutive_failures' = 0
                       /\ consecutive_empty_pages' =
                              IF st.new > 0 THEN 0 ELSE consecutive_empty_pages + 1
    /\ current_page' = current_page + 1
    /\ UNCHANGED <<max_reviews, page_pc>>
    /\ pagesFrame

\* lines 200 and 350-361: the loop condition is false
LoopEnds ==
    /\ page_pc = "loop"
    /\ ~LoopGoesOn
    /\ page_pc' = AfterLoop(collected)
    /\ UNCHANGED <<max_reviews, current_page, collected, seen_ids, consecutive_empty_pages,
                   consecutive_failures, pages_requested>>
    /\ pagesFrame

NextPages ==
    \/ FetchFails
    \/ PageWithoutReviews
    \/ PageOfReviews
    \/ LoopEnds

\* the loop is sequential code: it keeps taking steps until it has ended
SpecPages == InitPages /\ [][NextPages]_vars /\ WF_vars(NextPages)

\* an iteration breaks or advances current_page by one
BreakOrAdvance ==
    pages_requested' # pages_requested
    => \/ page_pc' # "loop" /\ current_page' = current_page
       \/ page_pc' = "loop" /\ current_page' = current_page + 1

PagesBounded ==
    /\ pages_requested <= max_possible_pages
    /\ Len(collected) <= max_reviews
    /\ \A i, j \in 1..Len(collected) : collected[i].id = collected[j].id => i = j

\* C27: the pagination loop ends; every iteration breaks or advances
\* current_page by one; at most (max_reviews // 20) + 5 pages are requested;
\* the collected list never holds more than max_reviews reviews nor two
\* reviews with the same reviewId
C27_PaginationTerminates ==
    /\ []PagesBounded
    /\ [][BreakOrAdvance]_vars
    /\ <>(page_pc # "loop")

\* all the pages allowed were requested and the target was not reached
C27_Witness ==
    /\ page_pc = "returned"
    /\ pages_requested = max_possible_pages
    /\ max_reviews = REVIEWS_PER_PAGE
    /\ Len(collected) = 2
    /\ consecutive_empty_pages > 0

(***************************************************************************)
(* general_review_gen.py: SentimentReviewGenerator.generate_dataset; the   *)
(* text of each attempt is whatever generate_synthetic_review returns      *)
(***************************************************************************)
\* line 252: attempts allowed for each review of the target
ATTEMPTS_PER_REVIEW == 10

\* line 254
max_failed == 100

\* "a b c"
G_ABC == <<"a", " ", "b", " ", "c">>

\* "a b"
G_AB == <<"a", " ", "b">>

\* "A b  c"
G_ABC_CASE == <<"A", " ", "b", " ", " ", "c">>

\* "a b c d e"
G_ABCDE == <<"a", " ", "b", " ", "c", " ", "d", " ", "e">>

\* no review, or a review without text
NoText == <<>>

GeneratedTexts == {G_ABC, G_AB, G_ABC_CASE, G_ABCDE}

\* largest of the small numbers of reviews asked for
MaxNumReviews == 2

\* largest number of products
MaxProducts == 2

\* the smallest target whose attempts outnumber max_failed
ManyReviews == (max_failed \div ATTEMPTS_PER_REVIEW) + 1

\* str.split(): the words of cs from position i on, word being the one begun
RECURSIVE SplitFrom(_, _, _)
SplitFrom(cs, i, word) ==
    IF i > Len(cs) THEN (IF word = <<>> THEN {} ELSE {word})
    ELSE IF IsSpace(cs[i])
    THEN (IF word = <<>> THEN {} ELSE {word}) \cup SplitFrom(cs, i + 1, <<>>)
    ELSE SplitFrom(cs, i + 1, Append(word, cs[i]))

\* line 272: set(review_text.lower().split())
WordSet(text) == SplitFrom(Lower(text), 1, <<>>)

\* the test of lines 274-283 with 0.7 as in generate_review_text
TooSimilar_seventy(review_text, existing_text) ==
    LET intersection == Cardinality(WordSet(review_text) \cap WordSet(existing_text))
        union == Cardinality(WordSet(review_text) \cup WordSet(existing_text))
    IN  union > 0 /\ 10 * intersection > 7 * union

\* lines 274-283: intersection / union > 0.6, in tenths
TooSimilar(review_text, existing_text) ==
    LET intersection == Cardinality(WordSet(review_text) \cap WordSet(existing_text))
        union == Cardinality(WordSet(review_text) \cup WordSet(existing_text))
    IN  union > 0 /\ 10 * intersection > 6 * union

\* lines 270-283
IsUnique(review_text, seen) ==
    /\ review_text \notin seen
    /\ \A existing_text \in seen : ~TooSimilar(review_text, existing_text)

\* lines 235-236 and 248
target_reviews ==
    (num_reviews \div num_products) + (IF product_idx < num_reviews % num_products THEN 1 ELSE 0)

\* line 252
max_attempts == target_reviews * ATTEMPTS_PER_REVIEW

InitGen ==
    /\ \/ num_reviews \in 0..MaxNumReviews /\ num_products \in 0..MaxProducts
       \/ num_reviews = ManyReviews /\ num_products = 1
    /\ product_idx = 0
    /\ product_reviews = <<>>
    /\ seen_texts = {}
    /\ attempts = 0
    /\ failed_attempts = 0
    /\ gen_products = <<>>
    /\ gen_pc = "start"
    /\ MergeIdle /\ CsvIdle /\ UrlsIdle /\ LoadIdle /\ PagesIdle

genFrame == UNCHANGED <<mergeVars, csvVars, urlVars, loadVars, pageVars>>

\* line 235: num_reviews // 0
DivisionByZero ==
    /\ gen_pc = "start"
    /\ num_products = 0
    /\ gen_pc' = "raised"
    /\ UNCHANGED <<num_reviews, num_products, product_idx, product_reviews, seen_texts, attempts,
                   failed_attempts, gen_products>>
    /\ genFrame

\* lines 235-243
StartDataset ==
    /\ gen_pc = "start"
    /\ num_products > 0
    /\ gen_pc' = "loop"
    /\ UNCHANGED <<num_reviews, num_products, product_idx, product_reviews, seen_texts, attempts,
                   failed_attempts, gen_products>>
    /\ genFrame

\* line 258
LoopCondition == Len(product_reviews) < target_reviews /\ attempts < max_attempts

\* lines 258-305: an attempt whose text is kept
AttemptAccepted ==
    /\ gen_pc = "loop"
    /\ LoopCondition
    /\ \E review_text \in GeneratedTexts :
           /\ IsUnique(review_text, seen_texts)
           /\ seen_texts' = seen_texts \cup {review_text}
           /\ product_reviews' = Append(product_reviews, review_text)
    /\ attempts' = attempts + 1
    /\ failed_attempts' = 0
    /\ UNCHANGED <<num_reviews, num_products, product_idx, gen_products, gen_pc>>
    /\ genFrame

\* lines 258-305: an attempt without a review or text, or whose text is
\* known or too similar; the loop is left at max_failed failures in a row
AttemptFailed ==
    /\ gen_pc = "loop"
    /\ LoopCondition
    /\ \E review_text \in GeneratedTexts \cup {NoText} :
           review_text = NoText \/ ~IsUnique(review_text, seen_texts)
    /\ attempts' = attempts + 1
    /\ failed_attempts' = failed_attempts + 1
    /\ gen_pc' = IF failed_attempts' >= max_failed THEN "broke" ELSE "loop"
    /\ UNCHANGED <<num_reviews, num_products, product_idx, product_reviews, seen_texts,
                   gen_products>>
    /\ genFrame

\* lines 243-254 and 307-313: the product is kept when it has reviews, and
\* the next product begins
EndProduct ==
    /\ gen_pc = "broke" \/ (gen_pc = "loop" /\ ~LoopCondition)
    /\ gen_products' = IF product_reviews # <<>> THEN Append(gen_products, product_reviews)
                       ELSE gen_products
    /\ product_idx' = product_idx + 1
    /\ product_reviews' = <<>>
    /\ attempts' = 0
    /\ failed_attempts' = 0
    /\ gen_pc' = IF product_idx' < num_products THEN "loop" ELSE "done"
    /\ UNCHANGED <<num_reviews, num_products, seen_texts>>
    /\ genFrame

NextGen ==
    \/ DivisionByZero
    \/ StartDataset
    \/ AttemptAccepted
    \/ AttemptFailed
    \/ EndProduct

SpecGen == InitGen /\ [][NextGen]_vars

RECURSIVE Flatten(_)
Flatten(ps) == IF ps = <<>> THEN <<>> ELSE ps[1] \o Flatten(Tail(ps))

\* the texts accepted so far, in the order of acceptance
AcceptedTexts == Flatten(gen_products) \o product_reviews

\* |A & B| / |A | B| <= 0.6, compared in tenths
JaccardAtMostSixTenths(a, b) ==
    10 * Cardinality(WordSet(a) \cap WordSet(b)) <= 6 * Cardinality(WordSet(a) \cup WordSet(b))

\* C28: the review texts of a dataset are pairwise distinct and each has a
\* word-set Jaccard similarity of at most 0.6 with every review accepted
\* before it; the loop of a product makes at most target_reviews * 10
\* attempts and at most 100 failed attempts in a row; the reviews never
\* outnumber num_reviews
C28_UniqueBoundedDataset ==
    /\ \A j \in 1..Len(AcceptedTexts) : \A i \in 1..(j - 1) :
           AcceptedTexts[i] # AcceptedTexts[j] /\ JaccardAtMostSixTenths(AcceptedTexts[j], AcceptedTexts[i])
    /\ gen_pc \in {"loop", "broke"}
       => /\ attempts <= target_reviews * 10
          /\ failed_attempts <= 100
          /\ gen_pc = "loop" => failed_attempts < 100
    /\ Len(AcceptedTexts) <= num_reviews

\* a product left after 100 failures in a row, with two reviews whose
\* similarity is exactly 0.6
C28_Witness ==
    /\ gen_pc = "broke"
    /\ failed_attempts = 100
    /\ attempts < target_reviews * 10
    /\ product_reviews = <<G_ABC, G_ABCDE>>

====
